---- MODULE Spec2Model ----
(***************************************************************************)
(* The operation merge and conflict-resolution worker (PUT/GET /state,     *)
(* /import) together with its sixteen operation handlers, and the simple   *)
(* last-writer-wins worker.                                                *)
(*                                                                         *)
(* Conventions of the translation:                                         *)
(*  - a JavaScript `undefined` that stands in a string position (an id, a  *)
(*    type tag) is the string Undef; `===` on such values is TLA+ equality *)
(*  - an optional object (createdUser, updatedListing, ...) is a sequence  *)
(*    of length 0 or 1                                                     *)
(*  - generateId() draws a fresh opaque string: the g-th id generated is   *)
(*    IdName(g); the counter g is threaded through the handlers            *)
(*  - balances, prices and amounts are integers (negative ones included);  *)
(*    Math.floor(x * 0.10) and Math.floor(x * 0.90) are the integer        *)
(*    floors of x/10 and 9x/10                                             *)
(*  - a roulette roll r in [0,1) is carried in ten-thousandths             *)
(*  - times are epoch milliseconds                                         *)
(***************************************************************************)
EXTENDS Integers, Sequences, FiniteSets, TLC

Undef == "undefined"

\* ------------------------------------------------------------------------
\* Sequence helpers (Array.prototype.find / filter / unshift)
\* ------------------------------------------------------------------------
FirstIdx(S) == IF S = {} THEN 0 ELSE CHOOSE i \in S : \A j \in S : i <= j

RECURSIVE SelectIdx(_, _, _)
SelectIdx(seq, keep, i) ==
  IF i > Len(seq) THEN <<>>
  ELSE (IF i \in keep THEN <<seq[i]>> ELSE <<>>) \o SelectIdx(seq, keep, i + 1)

Filter(seq, keep) == SelectIdx(seq, keep, 1)

Unshift(seq, x) == <<x>> \o seq

Floor10(x) == x \div 10

\* (a refund of the whole price)
WholePrice(x) == x

Floor90(x) == (9 * x) \div 10

\* (an amount that is taken as asked, without the cap)
Uncapped(a, b) == a

Min(a, b) == IF a < b THEN a ELSE b

Max(a, b) == IF a > b THEN a ELSE b

\* ------------------------------------------------------------------------
\* generateId
\* ------------------------------------------------------------------------
IdName(g) == "g" \o ToString(g)

generateId(g) == [id |-> IdName(g + 1), g |-> g + 1]

\* ------------------------------------------------------------------------
\* Snapshot and handler outcomes
\* ------------------------------------------------------------------------
JackpotName == "jackpot"

EmptyState ==
  [users |-> <<>>, txs |-> <<>>, listings |-> <<>>, rights |-> <<>>,
   notifications |-> <<>>, vTick |-> 0]

EmptySnapshot ==
  [state |-> EmptyState, lastUpdate |-> 0, processedOps |-> <<>>,
   conflicts |-> <<>>]

Field(data, f, dflt) == IF f \in DOMAIN data THEN data[f] ELSE dflt

Silent(meta) == Field(meta, "silent", FALSE)

NoEffect(state, g) ==
  [state |-> state, g |-> g, threw |-> FALSE, conflict |-> FALSE,
   conflictType |-> "", message |-> "", createdUser |-> <<>>,
   createdTxs |-> <<>>, createdRight |-> <<>>, updatedRight |-> <<>>,
   updatedListing |-> <<>>, deletedListingId |-> <<>>]

\* (a handler that has already written when it finds the conflict)
ConflictAfterWrite(state, g, type, msg) ==
  [NoEffect([state EXCEPT !.vTick = @ + 1], g) EXCEPT
     !.conflict = TRUE, !.conflictType = type,
                                   !.message = msg]

Conflict(state, g, type, msg) ==
  [NoEffect(state, g) EXCEPT !.conflict = TRUE, !.conflictType = type,
                             !.message = msg]

\* a handler that raises: `const { ... } = data` on an operation without data
Throw(state, g, msg) ==
  [NoEffect(state, g) EXCEPT !.threw = TRUE, !.message = msg]

NoData == [absent |-> TRUE]

HasData(data) == "absent" \notin DOMAIN data

UserIdx(state, id) ==
  FirstIdx({i \in DOMAIN state.users : state.users[i].id = id})

UserIdxByName(state, name) ==
  FirstIdx({i \in DOMAIN state.users : state.users[i].name = name})

ListingIdx(state, id) ==
  FirstIdx({i \in DOMAIN state.listings : state.listings[i].id = id})

ActiveListingIdx(state, id) ==
  FirstIdx({i \in DOMAIN state.listings :
              state.listings[i].id = id /\ state.listings[i].active})

RightIdx(state, id) ==
  FirstIdx({i \in DOMAIN state.rights : state.rights[i].id = id})

\* x.balance += d on the user object at index i (no object when i = 0)
AddBalance(users, i, d) ==
  IF i = 0 THEN users ELSE [users EXCEPT ![i].balance = @ + d]

Bump(state) == [state EXCEPT !.vTick = @ + 1]

\* (a ledger that is written to whatever the flag says)
LogTxAlways(state, meta, tx) == [state EXCEPT !.txs = Unshift(@, tx)]

LogTx(state, meta, tx) ==
  IF Silent(meta) THEN state ELSE [state EXCEPT !.txs = Unshift(@, tx)]

Created(meta, txs) == IF Silent(meta) THEN <<>> ELSE txs

Tx(id, ts, type, from, to, amount, listingId) ==
  [id |-> id, ts |-> ts, type |-> type, from |-> from, to |-> to,
   amount |-> amount, listingId |-> listingId]

\* ------------------------------------------------------------------------
\* Ledger handlers
\* ------------------------------------------------------------------------
\* (a transfer that forgets the balance check)
applyTransferUnchecked(state, g, data, timestamp, userId, meta) ==
  IF ~HasData(data) THEN Throw(state, g, "TypeError") ELSE
  LET toId   == Field(data, "toId", Undef)
      amount == data.amount
      from   == UserIdx(state, userId)
      to     == UserIdx(state, toId)
  IN
  IF from = 0 \/ to = 0 THEN Conflict(state, g, "user_not_found", "no sender or recipient")
  ELSE
    LET u1  == AddBalance(state.users, from, 0 - amount)
        u2  == AddBalance(u1, to, amount)
        n   == generateId(g)
        tx  == Tx(n.id, timestamp, "transfer", userId, toId, amount, Undef)
        s1  == LogTx([state EXCEPT !.users = u2], meta, tx)
    IN [NoEffect(Bump(s1), n.g) EXCEPT !.createdTxs = Created(meta, <<tx>>)]

applyTransfer(state, g, data, timestamp, userId, meta) ==
  IF ~HasData(data) THEN Throw(state, g, "TypeError") ELSE
  LET toId   == Field(data, "toId", Undef)
      amount == data.amount
      from   == UserIdx(state, userId)
      to     == UserIdx(state, toId)
  IN
  IF from = 0 \/ to = 0 THEN Conflict(state, g, "user_not_found", "no sender or recipient")
  ELSE IF state.users[from].balance < amount
    THEN Conflict(state, g, "insufficient_balance", "insufficient balance")
  ELSE
    LET u1  == AddBalance(state.users, from, 0 - amount)
        u2  == AddBalance(u1, to, amount)
        n   == generateId(g)
        tx  == Tx(n.id, timestamp, "transfer", userId, toId, amount, Undef)
        s1  == LogTx([state EXCEPT !.users = u2], meta, tx)
    IN [NoEffect(Bump(s1), n.g) EXCEPT !.createdTxs = Created(meta, <<tx>>)]

Truthy(n) == n # 0

\* (x || 1) on a number
OrOne(n) == IF Truthy(n) THEN n ELSE 1

applyBuyListing(state, g, data, timestamp, userId, meta) ==
  IF ~HasData(data) THEN Throw(state, g, "TypeError") ELSE
  LET listingId == Field(data, "listingId", Undef)
      li        == ActiveListingIdx(state, listingId)
      buyer     == UserIdx(state, userId)
  IN
  IF li = 0 THEN Conflict(state, g, "listing_not_found", "no such active listing")
  ELSE IF buyer = 0 THEN Conflict(state, g, "buyer_not_found", "no such buyer")
  ELSE
  LET listing == state.listings[li] IN
  IF OrOne(listing.qty) - listing.sold <= 0
    THEN Conflict(state, g, "sold_out", "sold out")
  ELSE IF state.users[buyer].balance < listing.price
    THEN Conflict(state, g, "insufficient_balance", "insufficient balance")
  ELSE IF listing.sellerId = userId
    THEN Conflict(state, g, "self_purchase", "own listing")
  ELSE
    LET seller  == UserIdx(state, listing.sellerId)
        jackpot == UserIdxByName(state, JackpotName)
        fee     == Floor10(listing.price)
        sellerReceive == listing.price - fee
        u1      == AddBalance(state.users, buyer, 0 - listing.price)
        u2      == AddBalance(u1, seller, sellerReceive)
        u3      == AddBalance(u2, jackpot, fee)
        sold    == listing.sold + 1
        l2      == [listing EXCEPT !.sold = sold,
                                   !.active = IF sold >= listing.qty THEN FALSE ELSE @]
        n1      == generateId(g)
        createdRight ==
          [id |-> n1.id, listingId |-> listing.id, title |-> listing.title,
           buyerId |-> userId, sellerId |-> listing.sellerId, ts |-> timestamp,
           status |-> "owned", executed |-> FALSE, rejectionCount |-> <<>>]
        n2      == generateId(n1.g)
        tx      == Tx(n2.id, timestamp, "purchase", userId, listing.sellerId,
                      listing.price, listing.id)
        s1      == [state EXCEPT !.users = u3, !.listings[li] = l2,
                                 !.rights = Unshift(@, createdRight)]
        s2      == LogTx(s1, meta, tx)
    IN [NoEffect(Bump(s2), n2.g) EXCEPT
          !.createdRight = <<createdRight>>,
          !.createdTxs = Created(meta, <<tx>>),
          !.updatedListing = <<l2>>]

applyCreateListing(state, g, data, timestamp, userId, meta) ==
  IF ~HasData(data) THEN Throw(state, g, "TypeError") ELSE
  LET n == generateId(g)
      newListing ==
        [id |-> n.id, title |-> Field(data, "title", Undef), price |-> data.price,
         sellerId |-> userId, active |-> TRUE, ts |-> timestamp,
         qty |-> OrOne(Field(data, "qty", 0)), sold |-> 0]
      s1 == [state EXCEPT !.listings = Unshift(@, newListing)]
  IN [NoEffect(Bump(s1), n.g) EXCEPT !.updatedListing = <<newListing>>]

applyToggleListing(state, g, data, timestamp, userId, meta) ==
  IF ~HasData(data) THEN Throw(state, g, "TypeError") ELSE
  LET li == ListingIdx(state, Field(data, "listingId", Undef)) IN
  IF li = 0 THEN Conflict(state, g, "listing_not_found", "no such listing")
  ELSE IF state.listings[li].sellerId # userId
    THEN Conflict(state, g, "not_owner", "not the owner")
  ELSE NoEffect(Bump([state EXCEPT !.listings[li].active = ~@]), g)

\* (a deletion that does not look at the sold count)
applyDeleteListingSold(state, g, data, timestamp, userId, meta) ==
  IF ~HasData(data) THEN Throw(state, g, "TypeError") ELSE
  LET listingId == Field(data, "listingId", Undef)
      idx == ListingIdx(state, listingId)
  IN
  IF idx = 0 THEN Conflict(state, g, "listing_not_found", "no such listing")
  ELSE IF state.listings[idx].sellerId # userId
    THEN Conflict(state, g, "not_owner", "not the owner")
  ELSE IF FALSE
    THEN Conflict(state, g, "has_sales", "listing has sales")
  ELSE
    LET s1 == [state EXCEPT
                 !.listings = Filter(@, DOMAIN state.listings \ {idx})]
    IN [NoEffect(Bump(s1), g) EXCEPT !.deletedListingId = <<listingId>>]

applyDeleteListing(state, g, data, timestamp, userId, meta) ==
  IF ~HasData(data) THEN Throw(state, g, "TypeError") ELSE
  LET listingId == Field(data, "listingId", Undef)
      idx == ListingIdx(state, listingId)
  IN
  IF idx = 0 THEN Conflict(state, g, "listing_not_found", "no such listing")
  ELSE IF state.listings[idx].sellerId # userId
    THEN Conflict(state, g, "not_owner", "not the owner")
  ELSE IF state.listings[idx].sold > 0
    THEN Conflict(state, g, "has_sales", "listing has sales")
  ELSE
    LET s1 == [state EXCEPT
                 !.listings = Filter(@, DOMAIN state.listings \ {idx})]
    IN [NoEffect(Bump(s1), g) EXCEPT !.deletedListingId = <<listingId>>]

StartBalance == 10000

\* (a registration that does not look for the name among the users)
applyRegisterUserUnchecked(state, g, data, timestamp, meta) ==
  IF ~HasData(data) THEN Throw(state, g, "TypeError") ELSE
  LET name == Field(data, "name", Undef) IN
  IF FALSE
    THEN Conflict(state, g, "name_taken", "name already used")
  ELSE
    LET n1 == generateId(g)
        newUser == [id |-> n1.id, name |-> name,
                    passHash |-> Field(data, "passHash", Undef),
                    balance |-> StartBalance, streakCount |-> 0,
                    lastMorningDate |-> <<>>]
        n2 == generateId(n1.g)
        mintTx == Tx(n2.id, timestamp, "mint", Undef, newUser.id, StartBalance, Undef)
        s1 == LogTx([state EXCEPT !.users = Append(@, newUser)], meta, mintTx)
    IN [NoEffect(Bump(s1), n2.g) EXCEPT
          !.createdUser = <<newUser>>, !.createdTxs = Created(meta, <<mintTx>>)]

applyRegisterUser(state, g, data, timestamp, meta) ==
  IF ~HasData(data) THEN Throw(state, g, "TypeError") ELSE
  LET name == Field(data, "name", Undef) IN
  IF UserIdxByName(state, name) # 0
    THEN Conflict(state, g, "name_taken", "name already used")
  ELSE
    LET n1 == generateId(g)
        newUser == [id |-> n1.id, name |-> name,
                    passHash |-> Field(data, "passHash", Undef),
                    balance |-> StartBalance, streakCount |-> 0,
                    lastMorningDate |-> <<>>]
        n2 == generateId(n1.g)
        mintTx == Tx(n2.id, timestamp, "mint", Undef, newUser.id, StartBalance, Undef)
        s1 == LogTx([state EXCEPT !.users = Append(@, newUser)], meta, mintTx)
    IN [NoEffect(Bump(s1), n2.g) EXCEPT
          !.createdUser = <<newUser>>, !.createdTxs = Created(meta, <<mintTx>>)]

DayMs == 86400000

\* new Date(timestamp).toISOString().split('T')[0], as a day number
DayOf(timestamp) == timestamp \div DayMs

StreakCap == 30

BonusBase == 1000

BonusStep == 100

applyMorningClaim(state, g, data, timestamp, userId, meta) ==
  LET ui == UserIdx(state, userId) IN
  IF ui = 0 THEN Conflict(state, g, "user_not_found", "no such user") ELSE
  LET user  == state.users[ui]
      today == DayOf(timestamp)
  IN
  IF user.lastMorningDate = <<today>>
    THEN Conflict(state, g, "already_claimed", "already claimed today")
  ELSE
    LET streak ==
          IF user.lastMorningDate # <<>>
            THEN (IF today - user.lastMorningDate[1] = 1
                    THEN Min(user.streakCount + 1, StreakCap) ELSE 1)
            ELSE 1
        bonus == BonusBase + BonusStep * streak
        u2 == [user EXCEPT !.streakCount = streak, !.lastMorningDate = <<today>>,
                           !.balance = @ + bonus]
        n  == generateId(g)
        tx == Tx(n.id, timestamp, "mint", Undef, userId, bonus, Undef)
        s1 == LogTx([state EXCEPT !.users[ui] = u2], meta, tx)
    IN [NoEffect(Bump(s1), n.g) EXCEPT !.createdTxs = Created(meta, <<tx>>)]

EntryFee == 100

\* roll < 0.01, in ten-thousandths
JackpotRoll == 100

\* the prize table: probability p (ten-thousandths) and payout v
Prizes ==
  << [p |-> 4000, v |-> 0],   [p |-> 2500, v |-> 50],  [p |-> 1800, v |-> 100],
     [p |-> 900,  v |-> 150], [p |-> 500,  v |-> 200], [p |-> 200,  v |-> 400],
     [p |-> 99,   v |-> 700] >>

\* an operation without data.roll: every `roll < x` is false
NoRoll == 10000

\* the loop over prizes: payout for the first prize whose cumulative
\* probability exceeds roll, 0 when the table is exhausted
RECURSIVE PrizeLoop(_, _, _, _)
PrizeLoop(roll, house, i, acc) ==
  IF i > Len(Prizes) THEN 0
  ELSE IF roll < acc + Prizes[i].p THEN Min(house, Prizes[i].v)
  ELSE PrizeLoop(roll, house, i + 1, acc + Prizes[i].p)

applyRoulette(state, g, data, timestamp, userId, meta) ==
  IF ~HasData(data) THEN Throw(state, g, "TypeError") ELSE
  LET roll    == Field(data, "roll", NoRoll)
      user    == UserIdx(state, userId)
      jackpot == UserIdxByName(state, JackpotName)
  IN
  IF user = 0 \/ jackpot = 0 THEN Conflict(state, g, "user_not_found", "no such user")
  ELSE IF state.users[user].balance < EntryFee
    THEN Conflict(state, g, "insufficient_balance", "insufficient balance")
  ELSE
    LET u1    == AddBalance(state.users, user, 0 - EntryFee)
        u2    == AddBalance(u1, jackpot, EntryFee)
        n1    == generateId(g)
        feeTx == Tx(n1.id, timestamp, "jpot-fee", userId, u2[jackpot].id, EntryFee, Undef)
        s1    == LogTx([state EXCEPT !.users = u2], meta, feeTx)
        house == u2[jackpot].balance
        payout == IF roll < JackpotRoll THEN house ELSE PrizeLoop(roll, house, 1, 0)
        n2    == IF payout > 0 THEN generateId(n1.g) ELSE n1
        \* user.balance += payout, then jackpot.balance = 0 or -= payout
        u3    == AddBalance(u2, user, payout)
        u4    == IF roll < JackpotRoll
                   THEN [u3 EXCEPT ![jackpot].balance = 0]
                   ELSE AddBalance(u3, jackpot, 0 - payout)
        payTx == Tx(n2.id, timestamp,
                    IF roll < JackpotRoll THEN "jackpot" ELSE "roulette",
                    u2[jackpot].id, userId, payout, Undef)
        s2    == IF payout > 0
                   THEN LogTx([s1 EXCEPT !.users = u4], meta, payTx)
                   ELSE s1
    IN [NoEffect(Bump(s2), n2.g) EXCEPT
          !.createdTxs = Created(meta, IF payout > 0 THEN <<feeTx, payTx>>
                                                      ELSE <<feeTx>>)]

applySendMessage(state, g, data, timestamp) ==
  IF ~HasData(data) THEN Throw(state, g, "TypeError") ELSE
  LET recipientId == Field(data, "recipientId", "")
      content     == Field(data, "content", "")
      type        == Field(data, "type", "")
  IN
  IF recipientId = "" \/ content = "" \/ type = ""
    THEN Conflict(state, g, "bad_request", "recipientId, content, and type are required")
  ELSE
    LET n == generateId(g)
        note == [id |-> n.id, timestamp |-> timestamp, recipientId |-> recipientId,
                 content |-> content, type |-> type,
                 isHtml |-> Field(data, "isHtml", FALSE)]
    IN NoEffect([state EXCEPT !.notifications = Append(@, note)], n.g)

\* ------------------------------------------------------------------------
\* Escrow (Right) handlers
\* ------------------------------------------------------------------------
\* the escrow transactions carry no amount; the field is held at 0
RightTx(id, ts, type, from, to, r) ==
  Tx(id, ts, type, from, to, 0, r.listingId)

\* the common shape of a status-only transition: r becomes r2, one tx
Transition(state, g, ri, r2, timestamp, type, from, to, meta) ==
  LET n  == generateId(g)
      tx == RightTx(n.id, timestamp, type, from, to, r2)
      s1 == LogTx([state EXCEPT !.rights[ri] = r2], meta, tx)
  IN [NoEffect(Bump(s1), n.g) EXCEPT
        !.updatedRight = <<r2>>, !.createdTxs = Created(meta, <<tx>>)]

applyBuyerRequest(state, g, data, timestamp, userId, meta) ==
  IF ~HasData(data) THEN Throw(state, g, "TypeError") ELSE
  LET ri == RightIdx(state, Field(data, "rightId", Undef)) IN
  IF ri = 0 THEN Conflict(state, g, "right_not_found", "no such right") ELSE
  LET r == state.rights[ri] IN
  IF r.buyerId # userId THEN Conflict(state, g, "not_buyer", "buyer only")
  ELSE IF r.status # "owned" THEN Conflict(state, g, "invalid_state", "cannot request")
  ELSE Transition(state, g, ri, [r EXCEPT !.status = "request"], timestamp,
                  "execute-request", r.buyerId, r.sellerId, meta)

applySellerRespond(state, g, data, timestamp, userId, meta) ==
  IF ~HasData(data) THEN Throw(state, g, "TypeError") ELSE
  LET ri == RightIdx(state, Field(data, "rightId", Undef))
      action == Field(data, "action", Undef)
  IN
  IF ri = 0 THEN Conflict(state, g, "right_not_found", "no such right") ELSE
  LET r == state.rights[ri] IN
  IF r.sellerId # userId THEN Conflict(state, g, "not_seller", "seller only")
  ELSE IF r.status # "request" THEN Conflict(state, g, "invalid_state", "cannot respond")
  ELSE IF action = "exec"
    THEN Transition(state, g, ri, [r EXCEPT !.status = "seller_executed"], timestamp,
                    "execute-done", r.sellerId, r.buyerId, meta)
    ELSE Transition(state, g, ri, [r EXCEPT !.status = "seller_cancel_requested"],
                    timestamp, "execute-cancel-ask", r.sellerId, r.buyerId, meta)

\* the refund shared by buyer_finalize (cancel) and seller_refund: money moves
\* from seller to buyer, the listing regains one unit, the right is removed
\* (a refund that leaves the right among the rights)
RefundKeepingRight(state, li, seller, buyer, rightId, amount) ==
  LET u1 == AddBalance(state.users, seller, 0 - amount)
      u2 == AddBalance(u1, buyer, amount)
      l  == state.listings[li]
      sold == Max(0, l.sold - 1)
      l2 == [l EXCEPT !.sold = sold, !.active = IF sold < l.qty THEN TRUE ELSE @]
  IN [state EXCEPT !.users = u2, !.listings[li] = l2]

Refund(state, li, seller, buyer, rightId, amount) ==
  LET u1 == AddBalance(state.users, seller, 0 - amount)
      u2 == AddBalance(u1, buyer, amount)
      l  == state.listings[li]
      sold == Max(0, l.sold - 1)
      l2 == [l EXCEPT !.sold = sold, !.active = IF sold < l.qty THEN TRUE ELSE @]
  IN [state EXCEPT
        !.users = u2, !.listings[li] = l2,
        !.rights = Filter(@, {i \in DOMAIN state.rights : state.rights[i].id # rightId})]

applyBuyerFinalize(state, g, data, timestamp, userId, meta) ==
  IF ~HasData(data) THEN Throw(state, g, "TypeError") ELSE
  LET rightId == Field(data, "rightId", Undef)
      ri == RightIdx(state, rightId)
  IN
  IF ri = 0 THEN Conflict(state, g, "right_not_found", "no such right") ELSE
  LET r == state.rights[ri] IN
  IF r.buyerId # userId THEN Conflict(state, g, "not_buyer", "buyer only")
  ELSE IF r.status = "seller_executed"
    THEN Transition(state, g, ri, [r EXCEPT !.status = "finalized", !.executed = TRUE],
                    timestamp, "execute-finalize", r.buyerId, r.sellerId, meta)
  ELSE IF r.status = "seller_cancel_requested"
    THEN
      LET li     == ListingIdx(state, r.listingId)
          seller == UserIdx(state, r.sellerId)
          buyer  == UserIdx(state, r.buyerId)
      IN
      IF li = 0 \/ seller = 0 \/ buyer = 0
        THEN Conflict(state, g, "missing_entities", "related data missing")
      ELSE
      LET refund == Floor90(state.listings[li].price) IN
      IF state.users[seller].balance < refund
        THEN Conflict(state, g, "seller_insufficient", "seller balance too low")
      ELSE
        LET s1 == Refund(state, li, seller, buyer, rightId, refund)
            n  == generateId(g)
            tx == Tx(n.id, timestamp, "execute-cancel-ok", r.buyerId, r.sellerId,
                     refund, s1.listings[li].id)
            s2 == LogTx(s1, meta, tx)
        IN [NoEffect(Bump(s2), n.g) EXCEPT
              !.updatedListing = <<s1.listings[li]>>,
              !.createdTxs = Created(meta, <<tx>>)]
  ELSE Conflict(state, g, "invalid_state", "cannot finalize")

applyReportExecution(state, g, data, timestamp, userId, meta) ==
  IF ~HasData(data) THEN Throw(state, g, "TypeError") ELSE
  LET ri == RightIdx(state, Field(data, "rightId", Undef)) IN
  IF ri = 0 THEN Conflict(state, g, "right_not_found", "no such right") ELSE
  LET r == state.rights[ri] IN
  IF r.sellerId # userId THEN Conflict(state, g, "not_seller", "seller only")
  ELSE IF r.status # "request" THEN Conflict(state, g, "invalid_state", "cannot report")
  ELSE Transition(state, g, ri,
                  [r EXCEPT !.status = "seller_reported", !.rejectionCount = <<0>>],
                  timestamp, "execute-reported", r.sellerId, r.buyerId, meta)

applyBuyerConfirm(state, g, data, timestamp, userId, meta) ==
  IF ~HasData(data) THEN Throw(state, g, "TypeError") ELSE
  LET ri == RightIdx(state, Field(data, "rightId", Undef)) IN
  IF ri = 0 THEN Conflict(state, g, "right_not_found", "no such right") ELSE
  LET r == state.rights[ri] IN
  IF r.buyerId # userId THEN Conflict(state, g, "not_buyer", "buyer only")
  ELSE IF r.status # "seller_reported"
    THEN Conflict(state, g, "invalid_state", "cannot confirm")
  ELSE Transition(state, g, ri,
                  [r EXCEPT !.status = "finalized", !.executed = TRUE,
                            !.rejectionCount = <<>>],
                  timestamp, "execute-confirm", r.buyerId, r.sellerId, meta)

\* (a rejection that looks neither at the counter nor for a fresh report)
applyBuyerRejectAgain(state, g, data, timestamp, userId, meta) ==
  IF ~HasData(data) THEN Throw(state, g, "TypeError") ELSE
  LET ri == RightIdx(state, Field(data, "rightId", Undef)) IN
  IF ri = 0 THEN Conflict(state, g, "right_not_found", "no such right") ELSE
  LET r == state.rights[ri] IN
  IF r.buyerId # userId THEN Conflict(state, g, "not_buyer", "buyer only")
  ELSE IF r.status \notin {"seller_reported", "buyer_rejected"}
    THEN Conflict(state, g, "invalid_state", "cannot reject")
  ELSE Transition(state, g, ri,
                  [r EXCEPT !.status = "buyer_rejected",
                            !.rejectionCount =
                               <<(IF @ = <<>> THEN 0 ELSE @[1]) + 1>>],
                  timestamp, "execute-reject", r.buyerId, r.sellerId, meta)

applyBuyerReject(state, g, data, timestamp, userId, meta) ==
  IF ~HasData(data) THEN Throw(state, g, "TypeError") ELSE
  LET ri == RightIdx(state, Field(data, "rightId", Undef)) IN
  IF ri = 0 THEN Conflict(state, g, "right_not_found", "no such right") ELSE
  LET r == state.rights[ri] IN
  IF r.buyerId # userId THEN Conflict(state, g, "not_buyer", "buyer only")
  ELSE IF r.status # "seller_reported"
    THEN Conflict(state, g, "invalid_state", "cannot reject")
  ELSE IF r.rejectionCount # <<>> /\ r.rejectionCount[1] >= 1
    THEN Conflict(state, g, "already_rejected", "already rejected")
  ELSE Transition(state, g, ri,
                  [r EXCEPT !.status = "buyer_rejected",
                            !.rejectionCount =
                               <<(IF @ = <<>> THEN 0 ELSE @[1]) + 1>>],
                  timestamp, "execute-reject", r.buyerId, r.sellerId, meta)

\* (a refund that forgets the status check for a right still owned)
RefundableOrOwned ==
  {"buyer_rejected", "seller_cancel_requested", "seller_reported", "owned"}

RefundableStatus == {"buyer_rejected", "seller_cancel_requested", "seller_reported"}

\* data.amount absent: typeof amount === 'number' is false
NoAmount == 0

applySellerRefund(state, g, data, timestamp, userId, meta) ==
  IF ~HasData(data) THEN Throw(state, g, "TypeError") ELSE
  LET rightId == Field(data, "rightId", Undef)
      amount  == Field(data, "amount", NoAmount)
      ri      == RightIdx(state, rightId)
  IN
  IF ri = 0 THEN Conflict(state, g, "right_not_found", "no such right") ELSE
  LET r == state.rights[ri] IN
  IF r.sellerId # userId THEN Conflict(state, g, "not_seller", "seller only")
  ELSE IF r.status \notin RefundableStatus
    THEN Conflict(state, g, "invalid_state", "cannot refund")
  ELSE
  LET li     == ListingIdx(state, r.listingId)
      seller == UserIdx(state, r.sellerId)
      buyer  == UserIdx(state, r.buyerId)
  IN
  IF li = 0 \/ seller = 0 \/ buyer = 0
    THEN Conflict(state, g, "missing_entities", "related data missing")
  ELSE
  LET fullAmount   == state.listings[li].price
      refundAmount == IF amount > 0 THEN Min(amount, fullAmount) ELSE fullAmount
  IN
  IF state.users[seller].balance < refundAmount
    THEN Conflict(state, g, "seller_insufficient", "seller balance too low")
  ELSE
    LET s1 == Refund(state, li, seller, buyer, rightId, refundAmount)
        n  == generateId(g)
        tx == Tx(n.id, timestamp, "seller_refund", r.sellerId, r.buyerId,
                 refundAmount, s1.listings[li].id)
        s2 == LogTx(s1, meta, tx)
    IN [NoEffect(Bump(s2), n.g) EXCEPT
          !.deletedListingId = <<s1.listings[li].id>>,
          !.createdTxs = Created(meta, <<tx>>),
          !.updatedListing = <<s1.listings[li]>>]

\* ------------------------------------------------------------------------
\* Dispatcher
\* ------------------------------------------------------------------------
applyOperation(state, g, operation) ==
  LET type      == operation.type
      data      == operation.data
      timestamp == operation.timestamp
      userId    == operation.userId
      meta      == operation.meta
  IN
  CASE type = "transfer"         -> applyTransfer(state, g, data, timestamp, userId, meta)
    [] type = "buy_listing"      -> applyBuyListing(state, g, data, timestamp, userId, meta)
    [] type = "create_listing"   -> applyCreateListing(state, g, data, timestamp, userId, meta)
    [] type = "toggle_listing"   -> applyToggleListing(state, g, data, timestamp, userId, meta)
    [] type = "delete_listing"   -> applyDeleteListing(state, g, data, timestamp, userId, meta)
    [] type = "register_user"    -> applyRegisterUser(state, g, data, timestamp, meta)
    [] type = "morning_claim"    -> applyMorningClaim(state, g, data, timestamp, userId, meta)
    [] type = "roulette"         -> applyRoulette(state, g, data, timestamp, userId, meta)
    [] type = "buyer_request"    -> applyBuyerRequest(state, g, data, timestamp, userId, meta)
    [] type = "seller_respond"   -> applySellerRespond(state, g, data, timestamp, userId, meta)
    [] type = "report_execution" -> applyReportExecution(state, g, data, timestamp, userId, meta)
    [] type = "buyer_confirm"    -> applyBuyerConfirm(state, g, data, timestamp, userId, meta)
    [] type = "buyer_reject"     -> applyBuyerReject(state, g, data, timestamp, userId, meta)
    [] type = "seller_refund"    -> applySellerRefund(state, g, data, timestamp, userId, meta)
    [] type = "buyer_finalize"   -> applyBuyerFinalize(state, g, data, timestamp, userId, meta)
    [] type = "send_message"     -> applySendMessage(state, g, data, timestamp)
    [] OTHER -> Conflict(state, g, "unknown_operation", "Unknown operation type")

\* ------------------------------------------------------------------------
\* Merge orchestrator
\* ------------------------------------------------------------------------
RetentionMs == 1000 * 60 * 60

NotifyTtlMs == 1000 * 60

\* JSON.parse(JSON.stringify(x)) and [...x]: a new object holding an equal
\* value (x comes out of the store's JSON, so the round trip keeps it).
\* `shared` says whether writes through the copy reach the original.
\* (the assignment without the copy: result.state = current.state)
NoCopy(x) == [val |-> x, shared |-> TRUE]

DeepCopy(x) == [val |-> x, shared |-> FALSE]

Spread(x) == [val |-> x, shared |-> FALSE]

\* what the caller's object holds once `final` was written through the copy
Original(source, copy, final) == IF copy.shared THEN final ELSE source

IsProcessed(processedOps, op) ==
  \E i \in DOMAIN processedOps : processedOps[i].id = op.id

Unprocessed(processedOps, newOperations) ==
  Filter(newOperations,
         {i \in DOMAIN newOperations : ~IsProcessed(processedOps, newOperations[i])})

\* Array.prototype.sort with (a, b) => a.timestamp - b.timestamp: stable
RECURSIVE InsertByTimestamp(_, _)
InsertByTimestamp(sorted, op) ==
  IF sorted = <<>> THEN <<op>>
  ELSE IF sorted[Len(sorted)].timestamp - op.timestamp <= 0
    THEN Append(sorted, op)
    ELSE Append(InsertByTimestamp(SubSeq(sorted, 1, Len(sorted) - 1), op),
                sorted[Len(sorted)])

RECURSIVE SortFrom(_, _, _)
SortFrom(ops, i, sorted) ==
  IF i > Len(ops) THEN sorted
  ELSE SortFrom(ops, i + 1, InsertByTimestamp(sorted, ops[i]))

\* (the batch taken in arrival order)
ArrivalOrder(ops) == ops

SortByTimestamp(ops) == SortFrom(ops, 1, <<>>)

ConflictRecord(op, type, message) ==
  [operationId |-> op.id, type |-> type, message |-> message,
   timestamp |-> op.timestamp, userId |-> op.userId]

ProcessedRecord(op) ==
  [id |-> op.id, timestamp |-> op.timestamp, type |-> op.type, userId |-> op.userId]

\* one iteration of `for (const op of unprocessedOps)`, r being what
\* applyOperation gave: acc is the result object plus g; `dispatched` records
\* the iteration (op id and how it ended)
Accumulate(acc, op, r) ==
  IF r.threw
    THEN [acc EXCEPT
            !.newConflicts = Append(@, ConflictRecord(op, "error", r.message)),
            !.dispatched = Append(@, [id |-> op.id, type |-> op.type, end |-> "error"])]
    ELSE [acc EXCEPT
            !.state = r.state,
            !.g = r.g,
            !.newConflicts =
               IF r.conflict
                 THEN Append(@, ConflictRecord(op, r.conflictType, r.message)) ELSE @,
            !.newUsers = @ \o r.createdUser,
            !.newTxs = @ \o r.createdTxs,
            !.newRights = @ \o r.createdRight,
            !.updatedListings = @ \o r.updatedListing,
            !.deletedListings = @ \o r.deletedListingId,
            !.processedOps = Append(@, ProcessedRecord(op)),
            !.dispatched = Append(@, [id |-> op.id, type |-> op.type,
                                      end |-> IF r.conflict THEN "conflict" ELSE "ok"])]

MergeStep(acc, op) == Accumulate(acc, op, applyOperation(acc.state, acc.g, op))

\* (a loop whose try/catch is around the loop, not inside it)
RECURSIVE MergeLoopAborting(_, _, _)
MergeLoopAborting(acc, ops, i) ==
  IF i > Len(ops) THEN acc
  ELSE IF acc.dispatched # <<>> /\ acc.dispatched[Len(acc.dispatched)].end = "error"
    THEN acc
  ELSE MergeLoopAborting(MergeStep(acc, ops[i]), ops, i + 1)

RECURSIVE MergeLoop(_, _, _)
MergeLoop(acc, ops, i) ==
  IF i > Len(ops) THEN acc ELSE MergeLoop(MergeStep(acc, ops[i]), ops, i + 1)

Newer(seq, cutoff) == {i \in DOMAIN seq : seq[i].timestamp > cutoff}

\* the result object as the loop starts, built over the three copies
StartResult(stateCopy, opsCopy, confCopy, g) ==
  [state |-> stateCopy.val, processedOps |-> opsCopy.val,
   conflicts |-> confCopy.val, newConflicts |-> <<>>, newUsers |-> <<>>,
   newTxs |-> <<>>, newRights |-> <<>>, updatedListings |-> <<>>,
   deletedListings |-> <<>>, g |-> g, dispatched |-> <<>>]

\* the retention pruner at wall-clock time now
Prune(looped, now) ==
  [looped EXCEPT
     !.processedOps = Filter(@, Newer(@, now - RetentionMs)),
     !.conflicts = Filter(@, Newer(@, now - RetentionMs)),
     !.state.notifications = Filter(@, Newer(@, now - NotifyTtlMs))]

\* what mergeOperations returns, and `input`: the value the caller's
\* `current` holds after the call (the handlers write into result.state and
\* push onto result.processedOps; the pruner assigns new arrays)
MergeReturn(current, stateCopy, opsCopy, looped, pruned) ==
  [result |-> pruned,
   input |-> [current EXCEPT
                !.state = Original(current.state, stateCopy, pruned.state),
                !.processedOps =
                   Original(current.processedOps, opsCopy, looped.processedOps)]]

MergeFrom(current, stateCopy, opsCopy, looped, now) ==
  MergeReturn(current, stateCopy, opsCopy, looped, Prune(looped, now))

\* mergeOperations(current, newOperations) run at wall-clock time now with g
\* ids generated so far
mergeOperations(current, newOperations, now, g) ==
  MergeFrom(current, DeepCopy(current.state), Spread(current.processedOps),
            MergeLoop(StartResult(DeepCopy(current.state), Spread(current.processedOps),
                                  Spread(current.conflicts), g),
                      SortByTimestamp(Unprocessed(current.processedOps, newOperations)),
                      1),
            now)

\* ------------------------------------------------------------------------
\* The merge worker's PUT /state
\* ------------------------------------------------------------------------
VARIABLES
  kv,        \* STATE_KV at kvKey: <<>> or <<document>>
  usersKv,   \* the users store at usersKey: <<>> or <<[users, lastUpdate]>>
  now,       \* Date.now()
  g,         \* number of ids generateId has produced
  sent,      \* number of operations clients have submitted so far
  last,      \* the last PUT handled: its body, what it read, what it answered
  applied,   \* ids of the operations whose handler ran to success, in order
  req,       \* the PUT requests in flight in the merge worker, by client
  doc,       \* the simple worker's STATE_KV at kvKey: <<>> or <<[v, state]>>
  sreq,      \* the PUT requests in flight in the simple worker, by client
  client     \* a polling client: the markers it sends and what it holds

vars == <<kv, usersKv, now, g, sent, last, applied, req, doc, sreq, client>>

inFlight == <<req, doc, sreq, client>>

\* !body || !Array.isArray(body.operations)
BadBody(body) == "operations" \notin DOMAIN body

NoOperations == [other |-> TRUE]

\* env.STATE_KV.get(kvKey, "json") || { state: {...}, lastUpdate: 0, ... }
ReadCurrent(store) ==
  IF store = <<>> THEN EmptySnapshot
  ELSE [state |-> store[1].state, lastUpdate |-> store[1].lastUpdate,
        processedOps |-> store[1].processedOps, conflicts |-> store[1].conflicts]

\* the updatedRights field of the diff: mergeOperations never sets it
UpdatedRights(mergeResult) == <<>>

ToSave(mergeResult, time) ==
  [state |-> mergeResult.state, lastUpdate |-> time,
   processedOps |-> mergeResult.processedOps,
   conflicts |-> mergeResult.conflicts,
   notify |-> [newUsers |-> mergeResult.newUsers, newTxs |-> mergeResult.newTxs,
               newRights |-> mergeResult.newRights,
               updatedRights |-> UpdatedRights(mergeResult),
               updatedListings |-> mergeResult.updatedListings,
               deletedListings |-> mergeResult.deletedListings,
               notifications |-> mergeResult.state.notifications]]

UsersDoc(mergeResult, time) == [users |-> mergeResult.state.users, lastUpdate |-> time]

RECURSIVE IdsOf(_)
IdsOf(seq) == IF seq = <<>> THEN <<>> ELSE <<seq[1].id>> \o IdsOf(Tail(seq))

Response(toSave, mergeResult) ==
  [status |-> 200, newState |-> toSave.state,
   processedOps |-> IdsOf(toSave.processedOps),
   conflicts |-> mergeResult.newConflicts, notify |-> toSave.notify,
   lastUpdate |-> toSave.lastUpdate]

RECURSIVE OkIds(_)
OkIds(dispatched) ==
  IF dispatched = <<>> THEN <<>>
  ELSE (IF dispatched[1].end = "ok" THEN <<dispatched[1].id>> ELSE <<>>)
       \o OkIds(Tail(dispatched))

Rejected(store, users, gen, body) ==
  [kv |-> store, usersKv |-> users, g |-> gen, okIds |-> <<>>,
   last |-> [kind |-> "put", status |-> 400, body |-> body, before |-> store]]

Saved(store, time, gen, body, current, m, toSave) ==
  [kv |-> <<toSave>>, usersKv |-> <<UsersDoc(m.result, time)>>,
   g |-> m.result.g, okIds |-> OkIds(m.result.dispatched),
   last |-> [kind |-> "put", status |-> 200, body |-> body, before |-> store,
             current |-> current, input |-> m.input, g |-> gen, now |-> time,
             result |-> m.result, response |-> Response(toSave, m.result)]]

Merged(store, time, gen, body, current, m) ==
  Saved(store, time, gen, body, current, m, ToSave(m.result, time))

\* the whole handler with no other request in between: what it leaves in the
\* two stores, and the record of the request
PutOutcome(store, users, time, gen, body) ==
  IF BadBody(body)
    THEN Rejected(store, users, gen, body)
    ELSE Merged(store, time, gen, body, ReadCurrent(store),
                mergeOperations(ReadCurrent(store), body.operations, time, gen))

BodySize(body) == IF BadBody(body) THEN 1 ELSE Len(body.operations)

MaxOps == 3

Commit(body, out) ==
  /\ kv' = out.kv
  /\ usersKv' = out.usersKv
  /\ g' = out.g
  /\ last' = out.last
  /\ applied' = applied \o out.okIds
  /\ sent' = sent + BodySize(body)
  /\ now' = now
  /\ UNCHANGED inFlight

PutState(body) ==
  /\ sent + BodySize(body) <= MaxOps
  /\ Commit(body, PutOutcome(kv, usersKv, now, g, body))

\* ------------------------------------------------------------------------
\* Clients
\* ------------------------------------------------------------------------
NoMeta == <<>>

Op(id, type, data, timestamp, userId) ==
  [id |-> id, type |-> type, data |-> data, timestamp |-> timestamp,
   userId |-> userId, meta |-> NoMeta]

Register(id, name, timestamp) ==
  Op(id, "register_user", [name |-> name, passHash |-> "h"], timestamp, "guest")

\* TLC integers are 32-bit: the clock starts ten days into the epoch
StartTime == 10 * DayMs

\* a client knows the ids it has read from the state
UserId(store, name) ==
  LET i == IF store = <<>> THEN 0 ELSE UserIdxByName(store[1].state, name) IN
  IF i = 0 THEN "nobody" ELSE store[1].state.users[i].id

Stores(out) == [kv |-> out.kv, usersKv |-> out.usersKv, g |-> out.g]

EmptyStore == [kv |-> <<>>, usersKv |-> <<>>, g |-> 0]

FirstListing(store) ==
  IF store = <<>> \/ store[1].state.listings = <<>> THEN "nothing"
  ELSE store[1].state.listings[1].id

FirstRight(store) ==
  IF store = <<>> \/ store[1].state.rights = <<>> THEN "nothing"
  ELSE store[1].state.rights[1].id

Listing(id, seller, price, qty, timestamp) ==
  Op(id, "create_listing", [title |-> "item", price |-> price, qty |-> qty],
     timestamp, seller)

OnListing(id, type, user, listingId, timestamp) ==
  Op(id, type, [listingId |-> listingId], timestamp, user)

OnRight(id, type, user, rightId, timestamp) ==
  Op(id, type, [rightId |-> rightId], timestamp, user)

Respond(id, user, rightId, action, timestamp) ==
  Op(id, "seller_respond", [rightId |-> rightId, action |-> action], timestamp, user)

\* the requests a client session is made of, each built from the ids the
\* client has read from the stored state
StepBody(step, store) ==
  LET alice == UserId(store, "alice")
      bob   == UserId(store, "bob")
      t     == StartTime
  IN [operations |->
       CASE step = "register"
              -> << Register("r1", "alice", t), Register("r2", "bob", t),
                    Register("r3", JackpotName, t) >>
         [] step = "register-no-house"
              -> << Register("r1", "alice", t), Register("r2", "bob", t) >>
         [] step = "list"
              -> << Listing("s1", alice, 1000, 1, t) >>
         [] step = "list2"
              -> << Listing("s1", alice, 1000, 2, t) >>
         [] step = "buy"
              -> << OnListing("s2", "buy_listing", bob, FirstListing(store), t) >>
         [] step = "request"
              -> << OnRight("s3", "buyer_request", bob, FirstRight(store), t) >>
         [] step = "exec"
              -> << Respond("s4", alice, FirstRight(store), "exec", t) >>
         [] step = "cancel"
              -> << Respond("s4", alice, FirstRight(store), "cancel", t) >>
         [] step = "report"
              -> << OnRight("s4", "report_execution", alice, FirstRight(store), t) >>
         [] step = "reject"
              -> << OnRight("s5", "buyer_reject", bob, FirstRight(store), t) >>
         [] step = "finalize"
              -> << OnRight("s5", "buyer_finalize", bob, FirstRight(store), t) >>]

\* the stores after the given requests were PUT one after the other at
\* StartTime
RECURSIVE AfterPuts(_, _)
AfterPuts(sys, steps) ==
  IF steps = <<>> THEN sys
  ELSE AfterPuts(Stores(PutOutcome(sys.kv, sys.usersKv, StartTime, sys.g,
                                   StepBody(steps[1], sys.kv))),
                 Tail(steps))

ThreeUsers == AfterPuts(EmptyStore, <<"register">>)

NoLast == [kind |-> "none"]

\* two clients of the same room and key
Clients == {"A", "B"}

\* a request of the merge worker: where it is in the handler, the body it
\* carries, the snapshot it read, what it computed, how many writes the store
\* had taken when it read, and its place among the writes
Idle ==
  [pc |-> "idle", body |-> <<>>, current |-> <<>>, out |-> <<>>, seen |-> 0,
   rank |-> 0, status |-> 0]

\* a client before its first poll: lastSyncTime and vt are the markers it
\* sends to the merge worker and to the simple worker; view and sview are
\* what it holds; asked, polled, status (and their s- twins) record its last
\* poll: the marker sent, the store as it was, the status answered
NotPolled ==
  [lastSyncTime |-> 0, view |-> <<>>, asked |-> 0, polled |-> <<>>, status |-> 0,
   vt |-> 0, sview |-> <<>>, sasked |-> 0, spolled |-> <<>>, sstatus |-> 0]

\* a request of the simple worker
SimpleIdle ==
  [pc |-> "idle", body |-> <<>>, prev |-> <<>>, seen |-> 0, rank |-> 0,
   status |-> 0, v |-> 0]

InitFrom(stores) ==
  /\ \E sys \in stores : kv = sys.kv /\ usersKv = sys.usersKv /\ g = sys.g
  /\ now = StartTime
  /\ sent = 0
  /\ last = NoLast
  /\ applied = <<>>
  /\ req = [p \in Clients |-> Idle]
  /\ doc = <<>>
  /\ sreq = [p \in Clients |-> SimpleIdle]
  /\ client = NotPolled

\* the clock moves on by d milliseconds between two requests
Horizon == RetentionMs

Tick(d) ==
  /\ now + d <= StartTime + Horizon
  /\ now' = now + d
  /\ UNCHANGED <<kv, usersKv, g, sent, last, applied>>
  /\ UNCHANGED inFlight

\* all sequences over S of length 1..n
RECURSIVE SeqsUpTo(_, _)
SeqsUpTo(S, n) ==
  IF n = 0 THEN {}
  ELSE LET shorter == SeqsUpTo(S, n - 1)
       IN {<<x>> : x \in S} \cup shorter
          \cup {Append(q, x) : q \in shorter, x \in S}

\* ------------------------------------------------------------------------
\* Workload 1: retries, orderings and faulty records
\* ------------------------------------------------------------------------
OpIds == {"o1", "o2"}

Transfer(id, from, to, amount, timestamp) ==
  Op(id, "transfer", [toId |-> to, amount |-> amount], timestamp, from)

RetryOps ==
  LET alice == UserId(kv, "alice")
      bob   == UserId(kv, "bob")
      house == UserId(kv, JackpotName)
  IN  {Transfer(id, alice, to, 4000, t) :
         id \in OpIds, to \in {bob, house}, t \in {now - 1, now}}
      \cup {Op(id, "transfer", NoData, now, alice) : id \in OpIds}
      \cup {Op(id, "frobnicate", [x |-> 1], now, alice) : id \in OpIds}
      \cup {Op(id, "register_user", [name |-> "carol", passHash |-> "h"], now, Undef) :
              id \in OpIds}

PutRetry ==
  \E ops \in SeqsUpTo(RetryOps, MaxOps - sent) : PutState([operations |-> ops])

PutNoOperations == PutState(NoOperations)

TickRetry == Tick(RetentionMs)

InitRetry == InitFrom({ThreeUsers})

NextRetry == PutRetry \/ PutNoOperations \/ TickRetry

SpecRetry == InitRetry /\ [][NextRetry]_vars

\* ------------------------------------------------------------------------
\* Properties of a merge pass (workload 1)
\* ------------------------------------------------------------------------
MergedLast == last.kind = "put" /\ last.status = 200

LastOps == last.body.operations

LastUnprocessed == SortByTimestamp(Unprocessed(last.current.processedOps, LastOps))

Orders(ops) ==
  {[i \in DOMAIN ops |-> ops[f[i]]] : f \in Permutations(DOMAIN ops)}

NameOf(state, id) ==
  IF UserIdx(state, id) = 0 THEN id ELSE state.users[UserIdx(state, id)].name

\* a domain state with every generated id taken out: users are referred to by
\* name, transactions, listings, rights and notifications by nothing
Anonymous(state) ==
  [users |-> [i \in DOMAIN state.users |-> [state.users[i] EXCEPT !.id = ""]],
   txs |-> [i \in DOMAIN state.txs |->
              [state.txs[i] EXCEPT !.id = "", !.from = NameOf(state, @),
                                   !.to = NameOf(state, @), !.listingId = ""]],
   listings |-> [i \in DOMAIN state.listings |->
                   [state.listings[i] EXCEPT !.id = "", !.sellerId = NameOf(state, @)]],
   rights |-> [i \in DOMAIN state.rights |->
                 [state.rights[i] EXCEPT !.id = "", !.listingId = "",
                                         !.buyerId = NameOf(state, @),
                                         !.sellerId = NameOf(state, @)]],
   notifications |-> [i \in DOMAIN state.notifications |->
                        [state.notifications[i] EXCEPT !.id = ""]],
   vTick |-> state.vTick]

MergedState(ops) ==
  mergeOperations(last.current, ops, last.now, last.g).result.state

Occurrences(seq, x) == Cardinality({i \in DOMAIN seq : seq[i] = x})

\* C1: over any sequence of merge passes an operation id is applied to the
\* domain state at most once, and a repeat submission (same batch or a later
\* one) is dropped: it is not dispatched again and yields no conflict record.
C1_AppliedAtMostOnce ==
  /\ \A i \in DOMAIN applied : Occurrences(applied, applied[i]) <= 1
  /\ MergedLast =>
       \A i \in DOMAIN last.result.dispatched :
          Occurrences(IdsOf(last.result.dispatched), last.result.dispatched[i].id) <= 1

\* C5 (as claimed): every arrangement of the last batch gives the same domain
\* state up to generated ids, equal timestamps included.
C5_AnyOrderSameState ==
  MergedLast =>
    \A ops \in Orders(LastOps) :
       Anonymous(MergedState(ops)) = Anonymous(last.result.state)

DistinctStamps(ops) ==
  \A i, j \in DOMAIN ops : ops[i].timestamp = ops[j].timestamp => i = j

\* C5 (amended): when the operations of the batch carry pairwise distinct
\* timestamps, every arrangement of the batch gives the same domain state.
C5_DistinctStampsSameState ==
  (MergedLast /\ DistinctStamps(LastOps)) =>
    \A ops \in Orders(LastOps) : MergedState(ops) = last.result.state

\* a batch sent newest-first whose two operations both succeeded
C5_Witness ==
  /\ MergedLast
  /\ Len(LastOps) = 2
  /\ LastOps[1].timestamp > LastOps[2].timestamp
  /\ Len(OkIds(last.result.dispatched)) = 2

KnownTypes ==
  {"transfer", "buy_listing", "create_listing", "toggle_listing", "delete_listing",
   "register_user", "morning_claim", "roulette", "buyer_request", "seller_respond",
   "report_execution", "buyer_confirm", "buyer_reject", "seller_refund",
   "buyer_finalize", "send_message"}

HasConflict(conflicts, id, type) ==
  \E i \in DOMAIN conflicts :
     conflicts[i].operationId = id /\ conflicts[i].type = type

Bumps(dispatched) ==
  Cardinality({i \in DOMAIN dispatched :
                 dispatched[i].end = "ok" /\ dispatched[i].type # "send_message"})

\* C7: a PUT with an operations array is answered 200 whatever its operations
\* do; every operation that passed the dedup filter is dispatched exactly
\* once, in timestamp order, also after one that conflicted or threw; a
\* handler that throws leaves an "error" conflict, an unknown type an
\* "unknown_operation" conflict; and the operations that succeeded, wherever
\* they stand in the batch, each bumped vTick.
C7_EveryOpDispatched ==
  /\ (last.kind = "put" /\ ~BadBody(last.body)) => last.status = 200
  /\ MergedLast =>
       /\ IdsOf(last.result.dispatched) = IdsOf(LastUnprocessed)
       /\ \A i \in DOMAIN LastUnprocessed :
            LET op == LastUnprocessed[i] IN
            /\ (op.type \in KnownTypes \ {"morning_claim"} /\ ~HasData(op.data))
                 => /\ last.result.dispatched[i].end = "error"
                    /\ HasConflict(last.response.conflicts, op.id, "error")
            /\ op.type \notin KnownTypes
                 => /\ last.result.dispatched[i].end = "conflict"
                    /\ HasConflict(last.response.conflicts, op.id, "unknown_operation")
       /\ last.result.state.vTick
            = last.current.state.vTick + Bumps(last.result.dispatched)

\* an operation succeeded after an earlier one of the same batch threw
C7_Witness ==
  /\ MergedLast
  /\ \E i, j \in DOMAIN last.result.dispatched :
        /\ i < j
        /\ last.result.dispatched[i].end = "error"
        /\ last.result.dispatched[j].end = "ok"

Malformed(op) == op.id = Undef \/ op.type = Undef \/ op.userId = Undef

MalformedBody(body) ==
  BadBody(body) \/ \E i \in DOMAIN body.operations : Malformed(body.operations[i])

\* C8: a PUT whose batch is malformed (no operations array, or a record that
\* lacks id, type or userId) is refused and leaves the stored snapshot as it
\* was.
C8_MalformedRejected ==
  (last.kind = "put" /\ MalformedBody(last.body)) =>
     (last.status # 200 /\ kv = last.before)

Fresh(ops, base) ==
  [i \in DOMAIN ops |-> [ops[i] EXCEPT !.id = "op" \o ToString(base + i)]]

Roulette(id, user, roll, timestamp) ==
  Op(id, "roulette", [roll |-> roll], timestamp, user)

LedgerOps ==
  LET alice == UserId(kv, "alice")
      bob   == UserId(kv, "bob")
      house == UserId(kv, JackpotName)
  IN  {Transfer("op", alice, bob, a, now) : a \in {4000, 0 - 20000}}
      \cup {Transfer("op", bob, alice, 4000, now)}
      \cup {OnListing("op", "buy_listing", u, FirstListing(kv), now) : u \in {bob, house}}
      \cup {Roulette("op", u, r, now) : u \in {alice, house}, r \in {50, 5000}}

PutLedger ==
  \E ops \in SeqsUpTo(LedgerOps, MaxOps - sent) :
     PutState([operations |-> Fresh(ops, sent)])

TickLedger == Tick(RetentionMs)

WithHouse == AfterPuts(EmptyStore, <<"register", "list2">>)

WithoutHouse == AfterPuts(EmptyStore, <<"register-no-house", "list2">>)

InitLedger == InitFrom({WithHouse, WithoutHouse})

NextLedger == PutLedger \/ TickLedger

SpecLedger == InitLedger /\ [][NextLedger]_vars

RECURSIVE SumBalances(_)
SumBalances(users) ==
  IF users = <<>> THEN 0 ELSE users[1].balance + SumBalances(Tail(users))

LedgerTypes == {"transfer", "buy_listing", "roulette"}

\* C2: a merge pass made of transfer, buy_listing and roulette operations
\* leaves the sum of all balances, the house account's included, as it was.
C2_SumConserved ==
  (MergedLast /\ \A i \in DOMAIN LastOps : LastOps[i].type \in LedgerTypes) =>
     SumBalances(last.result.state.users) = SumBalances(last.current.state.users)

\* C10: no user's balance is ever below zero in the stored snapshot.
C10_NoNegativeBalance ==
  kv # <<>> =>
    \A i \in DOMAIN kv[1].state.users : kv[1].state.users[i].balance >= 0

\* ------------------------------------------------------------------------
\* Workload 3: the marketplace and the escrow of rights
\* ------------------------------------------------------------------------
Refund300(id, user, rightId, timestamp) ==
  Op(id, "seller_refund", [rightId |-> rightId, amount |-> 300], timestamp, user)

MarketOps ==
  LET alice == UserId(kv, "alice")
      bob   == UserId(kv, "bob")
      l     == FirstListing(kv)
      r     == FirstRight(kv)
  IN  {Listing("op", alice, 1000, 1, now),
       OnListing("op", "buy_listing", bob, l, now),
       OnListing("op", "toggle_listing", alice, l, now),
       OnListing("op", "delete_listing", alice, l, now),
       Respond("op", alice, r, "exec", now),
       Respond("op", alice, r, "cancel", now),
       Refund300("op", alice, r, now),
       OnRight("op", "buyer_finalize", alice, r, now),
       OnRight("op", "seller_refund", bob, r, now)}
      \cup {OnRight("op", t, bob, r, now) :
              t \in {"buyer_request", "buyer_finalize", "buyer_confirm", "buyer_reject"}}
      \cup {OnRight("op", t, alice, r, now) : t \in {"report_execution", "seller_refund"}}

MaxDeals == 2

PutMarket ==
  /\ sent < MaxDeals
  /\ \E op \in MarketOps : PutState([operations |-> Fresh(<<op>>, sent)])

TickMarket == Tick(RetentionMs)

Sessions ==
  { <<"register", "list2">>,
    <<"register", "list", "buy">>,
    <<"register", "list", "buy", "request">>,
    <<"register", "list", "buy", "request", "exec">>,
    <<"register", "list", "buy", "request", "cancel">>,
    <<"register", "list", "buy", "request", "report">>,
    <<"register", "list", "buy", "request", "report", "reject">>,
    <<"register", "list", "buy", "request", "exec", "finalize">> }

InitMarket == InitFrom({AfterPuts(EmptyStore, steps) : steps \in Sessions})

NextMarket == PutMarket \/ TickMarket

SpecMarket == InitMarket /\ [][NextMarket]_vars

\* C3: every listing of the stored snapshot has sold <= qty, and is inactive
\* when sold = qty.
C3_StockInvariant ==
  kv # <<>> =>
    \A i \in DOMAIN kv[1].state.listings :
       LET l == kv[1].state.listings[i] IN
       l.sold <= l.qty /\ (l.sold = l.qty => ~l.active)

\* every way a client can address the entities of a state: each operation
\* type, issued by each user, on each right and listing
Issuers(state) == {state.users[i].id : i \in DOMAIN state.users} \cup {"nobody"}

RightIds(state) == {state.rights[i].id : i \in DOMAIN state.rights}

ListingIds(state) == {state.listings[i].id : i \in DOMAIN state.listings}

ProbeData(r, l, a, u) ==
  [rightId |-> r, listingId |-> l, action |-> a, amount |-> 300, toId |-> u,
   roll |-> 5000, name |-> "dave", passHash |-> "h", title |-> "item",
   price |-> 1000, qty |-> 1, recipientId |-> u, content |-> "hi",
   type |-> "info"]

RightTypes ==
  {"buyer_request", "seller_respond", "buyer_finalize", "report_execution",
   "buyer_confirm", "buyer_reject", "seller_refund"}

Probes(state) ==
  {Op("probe", type, ProbeData(r, "nothing", "exec", u), StartTime, u) :
     type \in RightTypes, u \in Issuers(state), r \in RightIds(state)}
  \cup {Op("probe", "seller_respond", ProbeData(r, "nothing", "cancel", u), StartTime, u) :
          u \in Issuers(state), r \in RightIds(state)}
  \cup {Op("probe", type, ProbeData("nothing", l, "exec", u), StartTime, u) :
          type \in KnownTypes \ RightTypes, u \in Issuers(state),
          l \in ListingIds(state)}

StatusEdges ==
  { <<"owned", "request", "buyer_request", "buyer">>,
    <<"request", "seller_executed", "seller_respond", "seller">>,
    <<"request", "seller_cancel_requested", "seller_respond", "seller">>,
    <<"request", "seller_reported", "report_execution", "seller">>,
    <<"seller_executed", "finalized", "buyer_finalize", "buyer">>,
    <<"seller_reported", "finalized", "buyer_confirm", "buyer">>,
    <<"seller_reported", "buyer_rejected", "buyer_reject", "buyer">> }

RemovalEdges ==
  { <<"seller_cancel_requested", "buyer_finalize", "buyer">>,
    <<"seller_cancel_requested", "seller_refund", "seller">>,
    <<"seller_reported", "seller_refund", "seller">>,
    <<"buyer_rejected", "seller_refund", "seller">> }

IssuedBy(role, right, op) ==
  op.userId = (IF role = "buyer" THEN right.buyerId ELSE right.sellerId)

BalanceOf(state, id) == state.users[UserIdx(state, id)].balance

\* what operation op, applied to state with outcome r, did to the rights
EdgesRespected(state, op, r) ==
  /\ \A i \in DOMAIN state.rights :
        LET b == state.rights[i]
            j == RightIdx(r.state, b.id)
        IN IF j = 0
             THEN /\ \E e \in RemovalEdges :
                        e[1] = b.status /\ e[2] = op.type /\ IssuedBy(e[3], b, op)
                  /\ BalanceOf(r.state, b.buyerId) > BalanceOf(state, b.buyerId)
                  /\ BalanceOf(r.state, b.buyerId) - BalanceOf(state, b.buyerId)
                       = BalanceOf(state, b.sellerId) - BalanceOf(r.state, b.sellerId)
             ELSE \/ r.state.rights[j].status = b.status
                  \/ \E e \in StatusEdges :
                        /\ e[1] = b.status /\ e[2] = r.state.rights[j].status
                        /\ e[3] = op.type /\ IssuedBy(e[4], b, op)
  /\ \A j \in DOMAIN r.state.rights :
        RightIdx(state, r.state.rights[j].id) = 0 =>
          /\ op.type = "buy_listing"
          /\ r.state.rights[j].status = "owned"
          /\ r.state.rights[j].buyerId = op.userId

ProbeRespects(state, op) == EdgesRespected(state, op, applyOperation(state, g, op))

\* C4: whatever operation is applied to a reachable state, a right changes
\* status only along the listed edges and for the listed issuer, is removed
\* only by the listed refunds (the buyer receiving what the seller pays), and
\* appears only through buy_listing, owned by the issuer; nothing leaves
\* finalized.
C4_OnlyListedEdges ==
  kv # <<>> => \A op \in Probes(kv[1].state) : ProbeRespects(kv[1].state, op)

\* the seller refunded a right the buyer had rejected, and it is gone
C4_Witness ==
  /\ MergedLast
  /\ Len(LastOps) = 1
  /\ LastOps[1].type = "seller_refund"
  /\ last.result.dispatched[1].end = "ok"
  /\ last.current.state.rights[1].status = "buyer_rejected"
  /\ kv[1].state.rights = <<>>

\* ------------------------------------------------------------------------
\* Workload 4: two requests in flight at once
\* ------------------------------------------------------------------------
\* the handler awaits the store three times; each await is a step of its own
Writes(requests) == Cardinality({p \in Clients : requests[p].rank > 0})

\* safeJSON, the body check and env.STATE_KV.get
PutRead(p, body) ==
  /\ req[p].pc = "idle"
  /\ req' = [req EXCEPT ![p] =
       IF BadBody(body)
         THEN [Idle EXCEPT !.pc = "done", !.body = <<body>>, !.status = 400]
         ELSE [Idle EXCEPT !.pc = "read", !.body = <<body>>,
                           !.current = <<ReadCurrent(kv)>>, !.seen = Writes(req)]]
  /\ sent' = sent + BodySize(body)
  /\ UNCHANGED <<kv, usersKv, now, g, last, applied, doc, sreq, client>>

\* (a handler whose read and write would be one transaction)
CurrentInTransaction(r, store) == ReadCurrent(store)

\* const current: the snapshot the handler holds since its read
CurrentOf(r, store) == r.current[1]

Land(p, out) ==
  /\ kv' = out.kv
  /\ g' = out.g
  /\ applied' = applied \o out.okIds
  /\ req' = [req EXCEPT ![p].pc = "written", ![p].out = <<out>>,
                        ![p].rank = Writes(req) + 1]
  /\ UNCHANGED <<usersKv, now, sent, last, doc, sreq, client>>

MergeHeld(p, body, current) ==
  Land(p, Merged(kv, now, g, body, current,
                 mergeOperations(current, body.operations, now, g)))

\* mergeOperations, toSave and env.STATE_KV.put
PutWrite(p) ==
  /\ req[p].pc = "read"
  /\ MergeHeld(p, req[p].body[1], CurrentOf(req[p], kv))

\* usersStore.put and the response
PutRespond(p) ==
  /\ req[p].pc = "written"
  /\ usersKv' = req[p].out[1].usersKv
  /\ last' = req[p].out[1].last
  /\ req' = [req EXCEPT ![p].pc = "done", ![p].status = 200]
  /\ UNCHANGED <<kv, now, g, sent, applied, doc, sreq, client>>

\* the simple worker: !body || typeof body !== "object" ||
\* typeof body.state !== "object"
BadState(body) == "state" \notin DOMAIN body

\* (await env.STATE_KV.get(kvKey, "json")) || { v: 0 }
ReadPrev(store) == IF store = <<>> THEN [v |-> 0] ELSE store[1]

NextDoc(prev, body) == [v |-> prev.v + 1, state |-> body.state]

SimpleRead(p, body) ==
  /\ sreq[p].pc = "idle"
  /\ sreq' = [sreq EXCEPT ![p] =
       IF BadState(body)
         THEN [SimpleIdle EXCEPT !.pc = "done", !.body = <<body>>, !.status = 400]
         ELSE [SimpleIdle EXCEPT !.pc = "read", !.body = <<body>>,
                                 !.prev = <<ReadPrev(doc)>>, !.seen = Writes(sreq)]]
  /\ UNCHANGED <<kv, usersKv, now, g, sent, last, applied, req, doc, client>>

SimpleWrite(p) ==
  /\ sreq[p].pc = "read"
  /\ doc' = <<NextDoc(sreq[p].prev[1], sreq[p].body[1])>>
  /\ sreq' = [sreq EXCEPT ![p].pc = "done", ![p].status = 200,
                          ![p].v = sreq[p].prev[1].v + 1,
                          ![p].rank = Writes(sreq) + 1]
  /\ UNCHANGED <<kv, usersKv, now, g, sent, last, applied, req, client>>

\* what the two clients send
RaceBodies(p) ==
  LET alice == UserId(kv, "alice")
      bob   == UserId(kv, "bob")
      house == UserId(kv, JackpotName)
  IN  IF p = "A"
        THEN {[operations |-> <<Transfer("a1", alice, bob, 4000, now)>>],
              [operations |-> <<Register("a1", "dave", now)>>],
              NoOperations}
        ELSE {[operations |-> <<Transfer("b1", bob, house, 500, now)>>],
              [operations |-> <<Listing("b1", bob, 1000, 1, now),
                                Transfer("b2", bob, alice, 500, now)>>]}

SimpleBodies(p) ==
  {[state |-> [vTick |-> t, by |-> p]] : t \in {1, 2}} \cup {NoOperations}

RacePut ==
  \E p \in Clients :
     \/ \E body \in RaceBodies(p) : PutRead(p, body)
     \/ PutWrite(p)
     \/ PutRespond(p)

RaceSimple ==
  \E p \in Clients :
     \/ \E body \in SimpleBodies(p) : SimpleRead(p, body)
     \/ SimpleWrite(p)

InitRace == InitFrom({ThreeUsers})

NextRace == RacePut \/ RaceSimple

SpecRace == InitRace /\ [][NextRace]_vars

\* both requests have been answered, both read before the store took a write,
\* and p wrote before q
Raced(requests, p, q) ==
  /\ p # q
  /\ requests[p].pc = "done" /\ requests[q].pc = "done"
  /\ requests[p].rank > 0 /\ requests[q].rank > requests[p].rank
  /\ requests[p].seen = 0 /\ requests[q].seen = 0

Acknowledged(r) == r.out[1].last.response.processedOps

InSeq(x, seq) == \E i \in DOMAIN seq : seq[i] = x

OpsOf(r) == r.body[1].operations

\* C6: when two PUTs both read before either writes, both are answered 200
\* and the stored snapshot is the later writer's merge of the snapshot both
\* read: the operations acknowledged to the earlier writer are in neither
\* its processedOps nor its state; in the simple worker the later body's
\* state is stored under the version both were given.
C6_LaterWriterOnly ==
  \A p \in Clients, q \in Clients :
     /\ Raced(req, p, q) =>
          /\ req[p].status = 200 /\ req[q].status = 200
          /\ \A i \in DOMAIN OpsOf(req[p]) :
                /\ InSeq(OpsOf(req[p])[i].id, Acknowledged(req[p]))
                /\ ~IsProcessed(kv[1].processedOps, OpsOf(req[p])[i])
          /\ \A i \in DOMAIN OpsOf(req[q]) :
                IsProcessed(kv[1].processedOps, OpsOf(req[q])[i])
          /\ req[q].current = req[p].current
          /\ kv[1].state =
               mergeOperations(req[q].current[1], OpsOf(req[q]), now,
                               req[q].out[1].last.g).result.state
     /\ Raced(sreq, p, q) =>
          /\ sreq[p].status = 200 /\ sreq[q].status = 200
          /\ doc[1].state = sreq[q].body[1].state
          /\ doc[1].v = sreq[p].v /\ doc[1].v = sreq[q].v

\* A's transfer was acknowledged and B's request overwrote it; the same
\* happened in the simple worker
C6_Witness ==
  /\ Raced(req, "A", "B")
  /\ OpsOf(req["A"])[1].type = "transfer"
  /\ req["A"].out[1].okIds = <<"a1">>
  /\ Raced(sreq, "A", "B")

\* ------------------------------------------------------------------------
\* Workload 5: operations sent again
\* ------------------------------------------------------------------------
\* a client sends the operations it holds, some of them stamped long before
\* they reach the server, and sends them again
ReplayOps ==
  LET alice == UserId(kv, "alice")
      bob   == UserId(kv, "bob")
  IN  {Transfer(id, alice, bob, 1000, t) :
         id \in OpIds, t \in {StartTime, StartTime - 2 * RetentionMs}}

PutReplay == \E op \in ReplayOps : PutState([operations |-> <<op>>])

TickReplay == Tick(RetentionMs \div 2)

InitReplay == InitFrom({ThreeUsers})

NextReplay == PutReplay \/ TickReplay

SpecReplay == InitReplay /\ [][NextReplay]_vars

\* C11: while less than an hour has passed since the first merge pass, an
\* operation id that a pass has processed is not dispatched again by a later
\* pass, whatever timestamp the operation carries.
C11_DedupWithinTheHour ==
  (MergedLast /\ last.now < StartTime + RetentionMs) =>
     \A i \in DOMAIN applied : Occurrences(applied, applied[i]) <= 1

\* C12: every operation of the last pass that ended in a conflict (a rule
\* violated or an error caught) and is younger than the retention window has
\* its record (operation id, kind, message, timestamp, user) in the conflict
\* log of the stored snapshot.
C12_ConflictsPersisted ==
  MergedLast =>
    \A i \in DOMAIN last.result.newConflicts :
       last.result.newConflicts[i].timestamp > last.now - RetentionMs =>
         InSeq(last.result.newConflicts[i], kv[1].conflicts)

\* ------------------------------------------------------------------------
\* Workload 6: messages among transfers
\* ------------------------------------------------------------------------
SendMessage(id, from, to, content, timestamp) ==
  Op(id, "send_message", [recipientId |-> to, content |-> content, type |-> "info"],
     timestamp, from)

\* every operation here that succeeds changes the domain state
NotifyOps ==
  LET alice == UserId(kv, "alice")
      bob   == UserId(kv, "bob")
  IN  {SendMessage("op", alice, bob, c, now) : c \in {"hi", ""}}
      \cup {Transfer("op", alice, bob, a, now) : a \in {1000, 20000}}

PutNotify ==
  \E ops \in SeqsUpTo(NotifyOps, MaxOps - sent) :
     PutState([operations |-> Fresh(ops, sent)])

TickNotify == Tick(RetentionMs \div 2)

InitNotify == InitFrom({ThreeUsers})

NextNotify == PutNotify \/ TickNotify

SpecNotify == InitNotify /\ [][NextNotify]_vars

Successes(dispatched) ==
  Cardinality({i \in DOMAIN dispatched : dispatched[i].end = "ok"})

\* C13: a merge pass never lowers state.vTick and raises it by exactly the
\* number of its operations that succeeded (each of them changes the domain
\* state, send_message included); conflicts add nothing.
C13_VTickCountsSuccesses ==
  MergedLast =>
    /\ last.result.state.vTick >= last.current.state.vTick
    /\ last.result.state.vTick =
         last.current.state.vTick + Successes(last.result.dispatched)

\* ------------------------------------------------------------------------
\* Workload 7: a client that polls
\* ------------------------------------------------------------------------
NoContent == [status |-> 204]

\* raw.state.users = usersRaw.users when both documents exist
WithUsers(raw, users) ==
  IF users = <<>> THEN raw ELSE [raw EXCEPT !.state.users = users[1].users]

\* GET /state of the merge worker
GetState(store, users, clientLastSync) ==
  IF store = <<>> THEN NoContent
  ELSE IF store[1].lastUpdate <= clientLastSync THEN NoContent
  ELSE [status |-> 200,
        body |-> [state |-> WithUsers(store[1], users).state,
                  lastUpdate |-> store[1].lastUpdate,
                  processedOps |-> store[1].processedOps,
                  conflicts |-> store[1].conflicts,
                  notify |-> store[1].notify]]

\* GET /state of the simple worker
SimpleGet(store, vt) ==
  IF store = <<>> THEN NoContent
  ELSE IF store[1].state.vTick <= vt THEN NoContent
  ELSE [status |-> 200, body |-> [v |-> store[1].v, state |-> store[1].state]]

\* fetchServerState: on 204 the client keeps what it has
Received(resp) ==
  IF resp.status = 204
    THEN [client EXCEPT !.asked = client.lastSyncTime, !.polled = <<kv>>,
                        !.status = 204]
    ELSE [client EXCEPT !.asked = client.lastSyncTime, !.polled = <<kv>>,
                        !.status = 200, !.view = <<resp.body>>,
                        !.lastSyncTime = resp.body.lastUpdate]

Poll ==
  /\ client' = Received(GetState(kv, usersKv, client.lastSyncTime))
  /\ UNCHANGED <<kv, usersKv, now, g, sent, last, applied, req, doc, sreq>>

SimpleReceived(resp) ==
  IF resp.status = 204
    THEN [client EXCEPT !.sasked = client.vt, !.spolled = <<doc>>, !.sstatus = 204]
    ELSE [client EXCEPT !.sasked = client.vt, !.spolled = <<doc>>, !.sstatus = 200,
                        !.sview = <<resp.body>>, !.vt = resp.body.state.vTick]

SimplePoll ==
  /\ client' = SimpleReceived(SimpleGet(doc, client.vt))
  /\ UNCHANGED <<kv, usersKv, now, g, sent, last, applied, req, doc, sreq>>

PollOps == {Transfer("op", UserId(kv, "alice"), UserId(kv, "bob"), 1000, now)}

PutPoll ==
  /\ sent < MaxOps
  /\ \E op \in PollOps : PutState([operations |-> Fresh(<<op>>, sent)])

TickPoll == Tick(RetentionMs \div 2)

InitPoll == InitFrom({EmptyStore, ThreeUsers})

NextPoll == PutPoll \/ Poll \/ RaceSimple \/ SimplePoll \/ TickPoll

SpecPoll == InitPoll /\ [][NextPoll]_vars

\* C14: a poll is answered 204 exactly when nothing is stored or the stored
\* marker is not greater than the one sent, and otherwise with the full
\* stored document; so after any poll the client holds the state that was
\* stored when it polled (both workers).
C14_PollDeliversStored ==
  /\ client.polled # <<>> =>
       LET store == client.polled[1] IN
       /\ client.status = 204 <=>
            (store = <<>> \/ store[1].lastUpdate <= client.asked)
       /\ client.status = 200 =>
            /\ client.view[1].state = store[1].state
            /\ client.view[1].processedOps = store[1].processedOps
            /\ client.view[1].conflicts = store[1].conflicts
            /\ client.view[1].notify = store[1].notify
       /\ store # <<>> =>
            client.view # <<>> /\ client.view[1].state = store[1].state
  /\ client.spolled # <<>> =>
       LET store == client.spolled[1] IN
       /\ client.sstatus = 204 <=>
            (store = <<>> \/ store[1].state.vTick <= client.sasked)
       /\ store # <<>> =>
            client.sview # <<>> /\ client.sview[1].state = store[1].state

\* the entities of `after` that are not in `before` as they are (created or
\* changed), and the ids of those of `before` that `after` no longer has
Touched(before, after) ==
  {i \in DOMAIN after : ~InSeq(after[i], before)}

Gone(before, after) ==
  {before[i].id : i \in DOMAIN before} \ {after[j].id : j \in DOMAIN after}

HasId(seq, id) == \E i \in DOMAIN seq : seq[i].id = id

\* C15: the diff a pass stores and returns lists every user and transaction
\* the pass created, every right it created (newRights) or whose status it
\* changed (updatedRights), every listing it created or changed
\* (updatedListings) and every listing it deleted (deletedListings).
C15_DiffListsEveryChange ==
  MergedLast =>
    LET before == last.current.state
        after  == last.result.state
        notify == kv[1].notify
    IN /\ last.response.notify = notify
       /\ \A i \in Touched(before.users, after.users) :
             HasId(before.users, after.users[i].id)
               \/ HasId(notify.newUsers, after.users[i].id)
       /\ \A i \in Touched(before.txs, after.txs) :
             HasId(notify.newTxs, after.txs[i].id)
       /\ \A i \in Touched(before.rights, after.rights) :
             IF HasId(before.rights, after.rights[i].id)
               THEN HasId(notify.updatedRights, after.rights[i].id)
               ELSE HasId(notify.newRights, after.rights[i].id)
       /\ \A i \in Touched(before.listings, after.listings) :
             HasId(notify.updatedListings, after.listings[i].id)
       /\ \A id \in Gone(before.listings, after.listings) :
             InSeq(id, notify.deletedListings)

\* ------------------------------------------------------------------------
\* Workload 8: import
\* ------------------------------------------------------------------------
\* `const usersStore` is declared inside the block of
\* `if (url.pathname === "/state")`: the name is bound there and nowhere else
UsersStoreInScope(pathname) == pathname = "/state"

\* !body || !body.data
NoImportData(body) == "data" \notin DOMAIN body

Overwrite(body) == "overwrite" \in DOMAIN body /\ body.overwrite = TRUE

ImportAnswer(status, store, users) == [status |-> status, kv |-> store, usersKv |-> users]

\* handleImportEndpoint, once called
handleImportEndpoint(store, users, time, body) ==
  IF NoImportData(body) THEN ImportAnswer(400, store, users)
  ELSE IF ~Overwrite(body) /\ store # <<>> THEN ImportAnswer(409, store, users)
  ELSE ImportAnswer(200,
         <<[state |-> body.data, lastUpdate |-> time, processedOps |-> <<>>,
            conflicts |-> <<>>]>>,
         <<[users |-> body.data.users, lastUpdate |-> time]>>)

\* fetch on /import: the call's argument list names usersStore; where the
\* name is not bound, evaluating it throws a ReferenceError that nothing
\* catches, and the runtime answers with an error
RouteImport(store, users, time, body) ==
  IF UsersStoreInScope("/import")
    THEN handleImportEndpoint(store, users, time, body)
    ELSE ImportAnswer(500, store, users)

Imported(body, out) ==
  /\ kv' = out.kv
  /\ usersKv' = out.usersKv
  /\ last' = [kind |-> "import", status |-> out.status, body |-> body, before |-> kv]
  /\ sent' = sent + 1
  /\ UNCHANGED <<now, g, applied>>
  /\ UNCHANGED inFlight

ImportBodies ==
  {[data |-> d, overwrite |-> o] : d \in {EmptyState, ThreeUsers.kv[1].state},
                                   o \in BOOLEAN}
  \cup {[data |-> EmptyState], NoOperations}

PostImport ==
  /\ sent < MaxOps
  /\ \E body \in ImportBodies : Imported(body, RouteImport(kv, usersKv, now, body))

PutImport ==
  /\ sent < MaxOps
  /\ \E op \in PollOps : PutState([operations |-> Fresh(<<op>>, sent)])

TickImport == Tick(RetentionMs \div 2)

InitImport == InitFrom({EmptyStore, ThreeUsers})

NextImport == PostImport \/ PutImport \/ TickImport

SpecImport == InitImport /\ [][NextImport]_vars

\* C16: a POST /import with data is accepted when nothing is stored or the
\* caller sent overwrite:true, and then the stored state is the supplied data
\* and both logs are empty; otherwise it is rejected and the stored snapshot
\* is as before.
C16_ImportReplacesOrRejects ==
  (last.kind = "import" /\ ~NoImportData(last.body)) =>
     IF Overwrite(last.body) \/ last.before = <<>>
       THEN /\ last.status = 200
            /\ kv # <<>>
            /\ kv[1].state = last.body.data
            /\ kv[1].processedOps = <<>>
            /\ kv[1].conflicts = <<>>
       ELSE last.status # 200 /\ kv = last.before

\* ------------------------------------------------------------------------
\* Workload 9: one operation at a time, in every way it can fail
\* ------------------------------------------------------------------------
\* meta: { silent: true }
Quiet(op) == [op EXCEPT !.meta = [silent |-> TRUE]]

OrQuiet(ops) == ops \cup {Quiet(op) : op \in ops}

TransferOps ==
  LET alice == UserId(kv, "alice")
      bob   == UserId(kv, "bob")
  IN  OrQuiet({Transfer("op", from, to, a, now) :
                 from \in {alice, "nobody"}, to \in {alice, bob, "nobody"},
                 a \in {4000, 8000}})

PutTransfer ==
  /\ sent < MaxDeals
  /\ \E op \in TransferOps : PutState([operations |-> Fresh(<<op>>, sent)])

InitTransfer == InitFrom({ThreeUsers})

NextTransfer == PutTransfer

SpecTransfer == InitTransfer /\ [][NextTransfer]_vars

\* the last request was one operation of the given type, and it was dispatched
LastWas(type) ==
  /\ MergedLast
  /\ Len(LastOps) = 1
  /\ LastOps[1].type = type
  /\ Len(last.result.dispatched) = 1

LastEnd == last.result.dispatched[1].end

LastConflict(types) ==
  /\ LastEnd = "conflict"
  /\ Len(last.result.newConflicts) = 1
  /\ last.result.newConflicts[1].type \in types

BalanceIn(state, id) ==
  IF UserIdx(state, id) = 0 THEN 0 ELSE state.users[UserIdx(state, id)].balance

OthersKeep(before, after, ids) ==
  /\ Len(after.users) = Len(before.users)
  /\ \A i \in DOMAIN before.users :
        before.users[i].id \notin ids => after.users[i] = before.users[i]

TransferAllowed(state, op) ==
  /\ UserIdx(state, op.userId) # 0
  /\ UserIdx(state, op.data.toId) # 0
  /\ BalanceIn(state, op.userId) >= op.data.amount

\* C17 (as claimed): a transfer succeeds exactly when both users exist and the
\* sender has the amount; the sender then has amount less, the recipient
\* amount more, nobody else changes and one transaction is recorded;
\* otherwise it is a user_not_found or insufficient_balance conflict.
C17_TransferMovesAmount ==
  LastWas("transfer") =>
    LET op == LastOps[1]
        before == last.current.state
        after == last.result.state
    IN IF TransferAllowed(before, op)
         THEN /\ LastEnd = "ok"
              /\ BalanceIn(after, op.userId) = BalanceIn(before, op.userId) - op.data.amount
              /\ BalanceIn(after, op.data.toId)
                   = BalanceIn(before, op.data.toId) + op.data.amount
              /\ OthersKeep(before, after, {op.userId, op.data.toId})
              /\ Len(after.txs) = Len(before.txs) + 1
         ELSE LastConflict({"user_not_found", "insufficient_balance"})

Moved(id, from, to, amount) ==
  (IF id = to THEN amount ELSE 0) - (IF id = from THEN amount ELSE 0)

\* C17 (amended): as above, but a transfer to oneself leaves the balance as
\* it was, and an operation marked silent records no transaction.
C17_TransferNetsAmount ==
  LastWas("transfer") =>
    LET op == LastOps[1]
        before == last.current.state
        after == last.result.state
    IN IF TransferAllowed(before, op)
         THEN /\ LastEnd = "ok"
              /\ \A id \in {op.userId, op.data.toId} :
                    BalanceIn(after, id)
                      = BalanceIn(before, id) + Moved(id, op.userId, op.data.toId,
                                                     op.data.amount)
              /\ OthersKeep(before, after, {op.userId, op.data.toId})
              /\ Len(after.txs) =
                   Len(before.txs) + (IF Silent(op.meta) THEN 0 ELSE 1)
              /\ ~Silent(op.meta) =>
                   /\ after.txs[1].type = "transfer"
                   /\ after.txs[1].amount = op.data.amount
                   /\ after.txs[1].from = op.userId /\ after.txs[1].to = op.data.toId
         ELSE /\ LastConflict({IF UserIdx(before, op.userId) = 0
                                   \/ UserIdx(before, op.data.toId) = 0
                                 THEN "user_not_found" ELSE "insufficient_balance"})
              /\ after = before

\* alice, left with 6000 by a first transfer, sent 4000 more to bob
C17_Witness ==
  /\ LastWas("transfer")
  /\ LastEnd = "ok"
  /\ LastOps[1].userId # LastOps[1].data.toId
  /\ ~Silent(LastOps[1].meta)
  /\ BalanceIn(last.current.state, LastOps[1].userId) = 6000
  /\ BalanceIn(last.result.state, LastOps[1].userId) = 2000

\* purchases: by the buyer, the seller, the house and a stranger, of a
\* listing that is cheap, dear, sold out, switched off or absent
ShopOps ==
  LET alice == UserId(kv, "alice")
      bob   == UserId(kv, "bob")
      house == UserId(kv, JackpotName)
      l     == FirstListing(kv)
  IN  OrQuiet({OnListing("op", "buy_listing", u, l, now) :
                 u \in {alice, bob, house, "nobody"}})
      \cup {OnListing("op", "buy_listing", bob, "nothing", now),
            OnListing("op", "toggle_listing", alice, l, now),
            Listing("op", alice, 20000, 1, now),
            Listing("op", "nobody", 1000, 1, now)}

PutShop ==
  /\ sent < MaxDeals
  /\ \E op \in ShopOps : PutState([operations |-> Fresh(<<op>>, sent)])

Shops ==
  { <<"register", "list">>, <<"register", "list2">>,
    <<"register-no-house", "list2">>, <<"register", "list", "buy">> }

InitShop == InitFrom({AfterPuts(EmptyStore, steps) : steps \in Shops})

NextShop == PutShop

SpecShop == InitShop /\ [][NextShop]_vars

BuyAllowed(state, op) ==
  LET li == ListingIdx(state, op.data.listingId) IN
  /\ li # 0
  /\ state.listings[li].active
  /\ state.listings[li].sold < state.listings[li].qty
  /\ UserIdx(state, op.userId) # 0
  /\ state.listings[li].sellerId # op.userId
  /\ BalanceIn(state, op.userId) >= state.listings[li].price

\* what a purchase at the given price moves onto the account of user u
Bought(u, buyer, seller, price) ==
  (IF u.id = seller THEN price - Floor10(price) ELSE 0)
  + (IF u.name = JackpotName THEN Floor10(price) ELSE 0)
  - (IF u.id = buyer THEN price ELSE 0)

\* C18: buy_listing succeeds exactly when the listing exists, is active and
\* in stock and the buyer exists, is not the seller and has the price; then
\* the buyer has paid the price, the seller has received the price less the
\* fee of a tenth, the house account has received the fee, sold is one more,
\* the listing is inactive once sold reaches qty, and one new right, owned by
\* the buyer and not executed, exists.
C18_PurchaseSettles ==
  LastWas("buy_listing") =>
    LET op == LastOps[1]
        before == last.current.state
        after == last.result.state
    IN IF BuyAllowed(before, op)
         THEN LET l0 == before.listings[ListingIdx(before, op.data.listingId)]
                  l1 == after.listings[ListingIdx(after, op.data.listingId)]
              IN /\ LastEnd = "ok"
                 /\ UserIdx(before, l0.sellerId) # 0
                 /\ UserIdxByName(before, JackpotName) # 0
                 /\ Len(after.users) = Len(before.users)
                 /\ \A i \in DOMAIN before.users :
                       after.users[i].balance =
                         before.users[i].balance
                           + Bought(before.users[i], op.userId, l0.sellerId, l0.price)
                 /\ l1.sold = l0.sold + 1
                 /\ l1.active = (l1.sold < l1.qty)
                 /\ Len(after.rights) = Len(before.rights) + 1
                 /\ after.rights[1].status = "owned"
                 /\ after.rights[1].executed = FALSE
                 /\ after.rights[1].buyerId = op.userId
                 /\ after.rights[1].listingId = l0.id
         ELSE LastEnd = "conflict" /\ after = before

\* a cancellation the seller has asked for: the buyer agrees or not, the
\* seller may have spent the money meanwhile
CancelOps ==
  LET alice == UserId(kv, "alice")
      bob   == UserId(kv, "bob")
      house == UserId(kv, JackpotName)
      r     == FirstRight(kv)
  IN  OrQuiet({OnRight("op", "buyer_finalize", u, r, now) : u \in {alice, bob}})
      \cup {Transfer("op", alice, house, 10500, now),
            OnListing("op", "buy_listing", house, FirstListing(kv), now),
            OnListing("op", "toggle_listing", alice, FirstListing(kv), now),
            OnListing("op", "delete_listing", alice, FirstListing(kv), now)}

PutCancel ==
  /\ sent < MaxDeals
  /\ \E op \in CancelOps : PutState([operations |-> Fresh(<<op>>, sent)])

Cancellations ==
  { <<"register", "list", "buy", "request", "cancel">>,
    <<"register", "list2", "buy", "request", "cancel">>,
    <<"register", "list2", "buy", "request", "exec">> }

InitCancel == InitFrom({AfterPuts(EmptyStore, steps) : steps \in Cancellations})

NextCancel == PutCancel

SpecCancel == InitCancel /\ [][NextCancel]_vars

\* the last request was a buyer_finalize by the buyer of a right that was in
\* status seller_cancel_requested
CancelAgreed ==
  /\ LastWas("buyer_finalize")
  /\ RightIdx(last.current.state, LastOps[1].data.rightId) # 0
  /\ LET r == last.current.state.rights[RightIdx(last.current.state,
                                                  LastOps[1].data.rightId)]
     IN r.status = "seller_cancel_requested" /\ r.buyerId = LastOps[1].userId

CancelledRight ==
  last.current.state.rights[RightIdx(last.current.state, LastOps[1].data.rightId)]

\* the right is gone, the buyer has floor(0.9 * price) more and the seller as
\* much less, sold is one less and the listing is active if sold < qty
CancelSettled(before, after, r) ==
  LET li == ListingIdx(before, r.listingId) IN
  /\ LastEnd = "ok"
  /\ RightIdx(after, r.id) = 0
  /\ Len(after.rights) = Len(before.rights) - 1
  /\ li # 0
  /\ ListingIdx(after, r.listingId) = li
  /\ BalanceIn(after, r.buyerId)
       = BalanceIn(before, r.buyerId) + (9 * before.listings[li].price) \div 10
  /\ BalanceIn(after, r.sellerId)
       = BalanceIn(before, r.sellerId) - (9 * before.listings[li].price) \div 10
  /\ OthersKeep(before, after, {r.buyerId, r.sellerId})
  /\ after.listings[li].sold = before.listings[li].sold - 1
  /\ after.listings[li].sold < after.listings[li].qty => after.listings[li].active

\* C19 (as claimed): whenever the buyer finalizes a right in status
\* seller_cancel_requested, the cancellation is settled.
C19_CancelAlwaysSettles ==
  CancelAgreed => CancelSettled(last.current.state, last.result.state, CancelledRight)

CanRefund(state, r) ==
  /\ ListingIdx(state, r.listingId) # 0
  /\ UserIdx(state, r.sellerId) # 0
  /\ UserIdx(state, r.buyerId) # 0
  /\ BalanceIn(state, r.sellerId)
       >= (9 * state.listings[ListingIdx(state, r.listingId)].price) \div 10

\* C19 (amended): the cancellation is settled when the listing and both
\* users still exist and the seller's balance covers the refund; otherwise
\* the operation is a conflict (missing_entities, seller_insufficient) and
\* the state stays as it was.
C19_CancelSettlesIfSellerCanPay ==
  CancelAgreed =>
    IF CanRefund(last.current.state, CancelledRight)
      THEN CancelSettled(last.current.state, last.result.state, CancelledRight)
      ELSE /\ LastConflict({"missing_entities", "seller_insufficient"})
           /\ last.result.state = last.current.state

\* bob agreed to the cancellation of the only unit sold: he has his 900, the
\* listing is on sale again
C19_Witness ==
  /\ CancelAgreed
  /\ LastEnd = "ok"
  /\ last.current.state.listings[1].qty = 1
  /\ ~last.current.state.listings[1].active
  /\ kv[1].state.listings[1].sold = 0
  /\ kv[1].state.listings[1].active
  /\ BalanceIn(kv[1].state, LastOps[1].userId) = 9900

\* operations that fail for the reasons the market probes do not cover: a
\* type no handler knows, a message without content, a transfer beyond the
\* balance, a right or a listing that does not exist
RefusedProbes(state) ==
  {Op("probe", "frobnicate", ProbeData("nothing", "nothing", "exec", u), StartTime, u) :
     u \in Issuers(state)}
  \cup {SendMessage("probe", u, u, "", StartTime) : u \in Issuers(state)}
  \cup {Transfer("probe", u, "nobody", 50000, StartTime) : u \in Issuers(state)}
  \cup {Transfer("probe", u, UserId(<<[state |-> state]>>, "bob"), 50000, StartTime) :
          u \in Issuers(state)}
  \cup {Op("probe", type, ProbeData("nothing", "nothing", "exec", u), StartTime, u) :
          type \in RightTypes \cup {"buy_listing", "toggle_listing", "delete_listing"},
          u \in Issuers(state) \ {"nobody"}}

Refused(r) == ~r.threw /\ r.conflict

LeavesStateAlone(state, op, r) == Refused(r) => r.state = state

ProbeLeavesStateAlone(state, op) ==
  LeavesStateAlone(state, op, applyOperation(state, g, op))

ConflictKinds(state, ops) ==
  {applyOperation(state, g, op).conflictType : op \in ops}

\* C20: whatever operation is applied to a reachable state, if it ends in a
\* business conflict the domain state it returns (users, listings, rights,
\* txs, notifications, vTick) equals the state it was given; and a request
\* whose one operation ended in a conflict stores the state it read.
C20_ConflictChangesNothing ==
  kv # <<>> =>
    /\ \A op \in Probes(kv[1].state) \cup RefusedProbes(kv[1].state) :
          ProbeLeavesStateAlone(kv[1].state, op)
    /\ (MergedLast /\ Len(last.result.dispatched) = 1 /\ LastEnd = "conflict") =>
          last.result.state = last.current.state

\* bob asked for a refund that only the seller may give; every kind of
\* conflict the claim lists occurs among the operations tried on this state
C20_Witness ==
  /\ LastWas("seller_refund")
  /\ LastConflict({"not_seller"})
  /\ kv[1].state = last.current.state
  /\ {"not_seller", "not_buyer", "invalid_state", "right_not_found",
      "listing_not_found", "user_not_found", "insufficient_balance", "not_owner",
      "unknown_operation", "bad_request"}
       \subseteq ConflictKinds(kv[1].state,
                               Probes(kv[1].state) \cup RefusedProbes(kv[1].state))

\* the transactions of the given type recorded for a listing
Recorded(state, type, listingId) ==
  Cardinality({i \in DOMAIN state.txs :
                 state.txs[i].type = type /\ state.txs[i].listingId = listingId})

Rejected1(state, r) ==
  r.status = "buyer_rejected" \/ (r.rejectionCount # <<>> /\ r.rejectionCount[1] >= 1)

RejectBy(state, r) ==
  applyOperation(state, g, OnRight("probe", "buyer_reject", r.buyerId, r.id, StartTime))

RejectRefused(state, r, out) == Refused(out) /\ out.state = state

\* C21: the ledger never holds more rejections than reports for a listing; a
\* buyer_reject succeeds only on a right in status seller_reported that has
\* not been rejected since its report; and on a right that has been, a
\* further buyer_reject by the buyer is a conflict that changes nothing.
C21_OneRejectionPerReport ==
  kv # <<>> =>
    /\ \A i \in DOMAIN kv[1].state.listings :
          Recorded(kv[1].state, "execute-reject", kv[1].state.listings[i].id)
            <= Recorded(kv[1].state, "execute-reported", kv[1].state.listings[i].id)
    /\ \A i \in DOMAIN kv[1].state.rights :
          Rejected1(kv[1].state, kv[1].state.rights[i]) =>
            RejectRefused(kv[1].state, kv[1].state.rights[i],
                          RejectBy(kv[1].state, kv[1].state.rights[i]))
    /\ (LastWas("buyer_reject") /\ LastEnd = "ok") =>
          LET r == last.current.state.rights[RightIdx(last.current.state,
                                                      LastOps[1].data.rightId)]
          IN r.status = "seller_reported" /\ ~Rejected1(last.current.state, r)

\* bob, who had rejected alice's report, rejected it again and was refused
C21_Witness ==
  /\ LastWas("buyer_reject")
  /\ LastEnd = "conflict"
  /\ last.current.state.rights # <<>>
  /\ last.current.state.rights[1].status = "buyer_rejected"
  /\ last.current.state.rights[1].buyerId = LastOps[1].userId
  /\ last.current.state.rights[1].rejectionCount = <<1>>
  /\ kv[1].state = last.current.state

\* ------------------------------------------------------------------------
\* Workload 10: the seller refunds a right, in full, in part or beyond the
\* price, with the proceeds at hand or transferred away
\* ------------------------------------------------------------------------
RefundOf(id, user, rightId, amount, timestamp) ==
  Op(id, "seller_refund", [rightId |-> rightId, amount |-> amount], timestamp, user)

RefundOps ==
  LET alice == UserId(kv, "alice")
      bob   == UserId(kv, "bob")
      house == UserId(kv, JackpotName)
      r     == FirstRight(kv)
  IN  OrQuiet({OnRight("op", "seller_refund", u, r, now) : u \in {alice, bob}}
              \cup {RefundOf("op", alice, r, a, now) : a \in {300, 1500, 0 - 200}})
      \cup {Transfer("op", alice, house, 10500, now),
            OnListing("op", "buy_listing", bob, FirstListing(kv), now)}

PutRefund ==
  /\ sent < MaxDeals
  /\ \E op \in RefundOps : PutState([operations |-> Fresh(<<op>>, sent)])

Refunds ==
  { <<"register", "list", "buy", "request", "report">>,
    <<"register", "list2", "buy", "request", "report", "reject">>,
    <<"register", "list2", "buy", "request", "cancel">>,
    <<"register", "list", "buy", "request">> }

InitRefund == InitFrom({AfterPuts(EmptyStore, steps) : steps \in Refunds})

NextRefund == PutRefund

SpecRefund == InitRefund /\ [][NextRefund]_vars

\* the last request was a seller_refund by the seller of a right that was in
\* one of the three refundable statuses, its listing and users still there
RefundAsked ==
  /\ LastWas("seller_refund")
  /\ RightIdx(last.current.state, LastOps[1].data.rightId) # 0
  /\ LET r == last.current.state.rights[RightIdx(last.current.state,
                                                  LastOps[1].data.rightId)]
     IN /\ r.sellerId = LastOps[1].userId
        /\ r.status \in {"seller_reported", "seller_cancel_requested", "buyer_rejected"}
        /\ ListingIdx(last.current.state, r.listingId) # 0
        /\ UserIdx(last.current.state, r.sellerId) # 0
        /\ UserIdx(last.current.state, r.buyerId) # 0

RefundedRight ==
  last.current.state.rights[RightIdx(last.current.state, LastOps[1].data.rightId)]

\* what the claim says is refunded: the requested amount when it is positive
\* and below the price, the price otherwise
RefundDue(state, r, data) ==
  LET price == state.listings[ListingIdx(state, r.listingId)].price
      asked == Field(data, "amount", 0)
  IN IF asked > 0 /\ asked < price THEN asked ELSE price

\* the right is gone, the amount went from the seller to the buyer, sold is
\* one less and the listing is active if sold < qty
RefundSettled(before, after, r, due) ==
  LET li == ListingIdx(before, r.listingId) IN
  /\ RightIdx(after, r.id) = 0
  /\ Len(after.rights) = Len(before.rights) - 1
  /\ ListingIdx(after, r.listingId) = li
  /\ r.buyerId # r.sellerId
  /\ BalanceIn(after, r.buyerId) = BalanceIn(before, r.buyerId) + due
  /\ BalanceIn(after, r.sellerId) = BalanceIn(before, r.sellerId) - due
  /\ OthersKeep(before, after, {r.buyerId, r.sellerId})
  /\ after.listings[li].sold = before.listings[li].sold - 1
  /\ after.listings[li].sold < after.listings[li].qty => after.listings[li].active

\* C22: a seller_refund by the seller on a right in seller_reported,
\* seller_cancel_requested or buyer_rejected is a conflict that changes
\* nothing when the seller's balance is below the refund, and otherwise
\* succeeds: min(requested amount, price), or the price when no positive
\* amount is given, goes from seller to buyer, the right is removed, sold is
\* decremented by one and the listing is active when sold < qty.
C22_RefundSettles ==
  RefundAsked =>
    IF BalanceIn(last.current.state, RefundedRight.sellerId)
         < RefundDue(last.current.state, RefundedRight, LastOps[1].data)
      THEN /\ LastConflict({"seller_insufficient"})
           /\ last.result.state = last.current.state
      ELSE /\ LastEnd = "ok"
           /\ RefundSettled(last.current.state, last.result.state, RefundedRight,
                            RefundDue(last.current.state, RefundedRight,
                                      LastOps[1].data))

\* alice, asked for 1500 on a sold-out listing priced 1000, refunded bob 1000
\* and the listing is on sale again
C22_Witness ==
  /\ RefundAsked
  /\ LastEnd = "ok"
  /\ Field(LastOps[1].data, "amount", 0) = 1500
  /\ ~last.current.state.listings[1].active
  /\ kv[1].state.listings[1].active
  /\ kv[1].state.listings[1].sold = 0
  /\ kv[1].state.rights = <<>>
  /\ BalanceIn(kv[1].state, RefundedRight.buyerId) = 10000

\* ------------------------------------------------------------------------
\* Workload 11: morning claims, one to a request, stamped by clients whose
\* clocks are a day behind, right, or a day ahead
\* ------------------------------------------------------------------------
MorningClaim(id, user, timestamp) == Op(id, "morning_claim", NoData, timestamp, user)

MorningOps ==
  {MorningClaim("op", UserId(kv, name), now + d) :
     name \in {"alice", "bob"}, d \in {0 - DayMs, 0, DayMs}}

PutMorning ==
  /\ sent < MaxOps
  /\ \E op \in MorningOps : PutState([operations |-> Fresh(<<op>>, sent)])

InitMorning == InitFrom({ThreeUsers})

NextMorning == PutMorning

SpecMorning == InitMorning /\ [][NextMorning]_vars

\* the bonuses minted to a user for a calendar date
Bonuses(state, userId, day) ==
  {i \in DOMAIN state.txs :
     /\ state.txs[i].type = "mint"
     /\ state.txs[i].to = userId
     /\ state.txs[i].amount # StartBalance
     /\ DayOf(state.txs[i].ts) = day}

\* C23: for every user and calendar date at most one morning_claim stamped
\* with that date has succeeded, whatever the order the claims arrived in.
C23_OneClaimPerDate ==
  kv # <<>> =>
    \A i \in DOMAIN kv[1].state.users :
      \A d \in {DayOf(StartTime) - 1, DayOf(StartTime), DayOf(StartTime) + 1} :
        Cardinality(Bonuses(kv[1].state, kv[1].state.users[i].id, d)) <= 1

\* ------------------------------------------------------------------------
\* Workload 12: roulette, played by a user, by the house account and by a
\* stranger, against a full and an emptied pot
\* ------------------------------------------------------------------------
Rolls == {50, 5000, 9800, 9999}

RouletteOps ==
  LET alice == UserId(kv, "alice")
      bob   == UserId(kv, "bob")
      house == UserId(kv, JackpotName)
  IN  {Roulette("op", u, r, now) : u \in {alice, house, "nobody"}, r \in Rolls}
      \cup {Quiet(Roulette("op", alice, 50, now)),
            Op("op", "roulette", [bet |-> 1], now, alice),
            Transfer("op", alice, bob, 9950, now),
            Transfer("op", house, bob, 10000, now)}

PutRoulette ==
  /\ sent < MaxDeals
  /\ \E op \in RouletteOps : PutState([operations |-> Fresh(<<op>>, sent)])

InitRoulette ==
  InitFrom({ThreeUsers, AfterPuts(EmptyStore, <<"register-no-house">>)})

NextRoulette == PutRoulette

SpecRoulette == InitRoulette /\ [][NextRoulette]_vars

RouletteAllowed(state, op) ==
  /\ UserIdx(state, op.userId) # 0
  /\ UserIdxByName(state, JackpotName) # 0
  /\ BalanceIn(state, op.userId) >= EntryFee

\* the fee moved from the caller to the house, then the payout from the house
\* to the caller
FeeThenPayout(users, caller, house, payout) ==
  AddBalance(AddBalance(AddBalance(AddBalance(users, caller, 0 - EntryFee),
                                   house, EntryFee),
                        house, 0 - payout),
             caller, payout)

RouletteSettled(before, after, caller, house, roll) ==
  LET pot    == FeeThenPayout(before.users, caller, house, 0)[house].balance
      payout == pot - after.users[house].balance
  IN /\ payout >= 0
     /\ payout <= pot
     /\ after.users[house].balance >= 0
     /\ after.users = FeeThenPayout(before.users, caller, house, payout)
     /\ roll < JackpotRoll => payout = pot /\ after.users[house].balance = 0

\* C24: roulette succeeds only when the caller and the house account exist and
\* the caller has the entry fee of 100; the fee goes to the house, the caller
\* is then paid a payout no higher than the house balance after the fee, the
\* house balance is not negative afterwards, and with roll < 0.01 the payout
\* is the whole house balance, which becomes 0.
C24_RoulettePaysFromThePot ==
  LastWas("roulette") =>
    IF RouletteAllowed(last.current.state, LastOps[1])
      THEN LastEnd = "ok" =>
             RouletteSettled(last.current.state, last.result.state,
                             UserIdx(last.current.state, LastOps[1].userId),
                             UserIdxByName(last.current.state, JackpotName),
                             Field(LastOps[1].data, "roll", NoRoll))
      ELSE LastEnd = "conflict" /\ last.result.state = last.current.state

\* ------------------------------------------------------------------------
\* Workload 13: registrations, of names taken and free, silent or not, one
\* or two to a request
\* ------------------------------------------------------------------------
RegisterOps ==
  OrQuiet({Register("op", name, now) : name \in {"alice", "carol"}})
  \cup {Op("op", "register_user", NoData, now, "guest")}

PutRegister ==
  \E op \in RegisterOps :
    \/ PutState([operations |-> Fresh(<<op>>, sent)])
    \/ PutState([operations |-> Fresh(<<op, Register("op", "carol", now)>>, sent)])

InitRegister == InitFrom({EmptyStore, ThreeUsers})

NextRegister == PutRegister

SpecRegister == InitRegister /\ [][NextRegister]_vars

\* the last request was one register_user carrying data
Registering == LastWas("register_user") /\ HasData(LastOps[1].data)

NamesDistinct(state) ==
  \A i, j \in DOMAIN state.users :
     state.users[i].name = state.users[j].name => i = j

\* one user more, named as asked, with the starting balance
UserCreated(before, after, name) ==
  /\ Len(after.users) = Len(before.users) + 1
  /\ \A i \in DOMAIN before.users : after.users[i] = before.users[i]
  /\ after.users[Len(after.users)].name = name
  /\ after.users[Len(after.users)].balance = StartBalance

\* n transactions more, each a mint of the starting balance to the new user
MintsRecorded(before, after, n) ==
  /\ Len(after.txs) = Len(before.txs) + n
  /\ \A i \in 1..n :
        /\ after.txs[i].type = "mint"
        /\ after.txs[i].amount = StartBalance
        /\ after.txs[i].to = after.users[Len(after.users)].id

\* C25 (as claimed): register_user succeeds exactly when no user has the name;
\* it then creates a user with balance 10000 and records one mint transaction
\* of 10000; names are pairwise distinct in every stored state.
C25_RegisterMintsOnce ==
  /\ kv # <<>> => NamesDistinct(kv[1].state)
  /\ Registering =>
       IF UserIdxByName(last.current.state, LastOps[1].data.name) = 0
         THEN /\ LastEnd = "ok"
              /\ UserCreated(last.current.state, last.result.state, LastOps[1].data.name)
              /\ MintsRecorded(last.current.state, last.result.state, 1)
         ELSE /\ LastConflict({"name_taken"})
              /\ last.result.state = last.current.state

\* C25 (amended): as claimed, except that a registration marked silent
\* records no transaction.
C25_RegisterMintsUnlessSilent ==
  /\ kv # <<>> => NamesDistinct(kv[1].state)
  /\ Registering =>
       IF UserIdxByName(last.current.state, LastOps[1].data.name) = 0
         THEN /\ LastEnd = "ok"
              /\ UserCreated(last.current.state, last.result.state, LastOps[1].data.name)
              /\ MintsRecorded(last.current.state, last.result.state,
                               IF Silent(LastOps[1].meta) THEN 0 ELSE 1)
         ELSE /\ LastConflict({"name_taken"})
              /\ last.result.state = last.current.state

\* carol registered after alice, bob and the house, and then was refused the
\* same name
C25_Witness ==
  /\ Registering
  /\ LastConflict({"name_taken"})
  /\ LastOps[1].data.name = "carol"
  /\ Len(kv[1].state.users) = 4
  /\ kv[1].state.users[4].balance = StartBalance
  /\ Len(kv[1].state.txs) = 4

\* ------------------------------------------------------------------------
\* Workload 14: deletions of listings unsold, sold and refunded, by the
\* seller and by others
\* ------------------------------------------------------------------------
DeleteOps ==
  LET alice == UserId(kv, "alice")
      bob   == UserId(kv, "bob")
  IN  OrQuiet({OnListing("op", "delete_listing", u, l, now) :
                 u \in {alice, bob, "nobody"}, l \in {FirstListing(kv), "nothing"}})
      \cup {OnListing("op", "buy_listing", bob, FirstListing(kv), now),
            OnRight("op", "seller_refund", alice, FirstRight(kv), now),
            Listing("op", bob, 500, 1, now)}

PutDelete ==
  /\ sent < MaxDeals
  /\ \E op \in DeleteOps : PutState([operations |-> Fresh(<<op>>, sent)])

Deletions ==
  { <<"register">>,
    <<"register", "list">>,
    <<"register", "list2", "buy">>,
    <<"register", "list", "buy", "request", "report">> }

InitDelete == InitFrom({AfterPuts(EmptyStore, steps) : steps \in Deletions})

NextDelete == PutDelete

SpecDelete == InitDelete /\ [][NextDelete]_vars

Deletable(state, op) ==
  /\ ListingIdx(state, op.data.listingId) # 0
  /\ state.listings[ListingIdx(state, op.data.listingId)].sellerId = op.userId
  /\ state.listings[ListingIdx(state, op.data.listingId)].sold = 0

\* the listing is gone and the others are as they were, in their order
ListingRemoved(before, after, listingId) ==
  /\ ListingIdx(after, listingId) = 0
  /\ after.listings
       = Filter(before.listings, DOMAIN before.listings \ {ListingIdx(before, listingId)})

\* C26: delete_listing removes the listing when the caller is its seller and
\* its sold count is 0; for an unknown listing, another caller or sold > 0 it
\* is a conflict and the listings stay as they were.
C26_DeleteOnlyUnsoldByOwner ==
  LastWas("delete_listing") =>
    IF Deletable(last.current.state, LastOps[1])
      THEN /\ LastEnd = "ok"
           /\ ListingRemoved(last.current.state, last.result.state,
                             LastOps[1].data.listingId)
      ELSE /\ LastConflict({"listing_not_found", "not_owner", "has_sales"})
           /\ last.result.state = last.current.state

\* alice could not delete the listing bob had bought from: it is still there
\* with its sale
C26_Witness ==
  /\ LastWas("delete_listing")
  /\ LastConflict({"has_sales"})
  /\ kv[1].state.listings # <<>>
  /\ kv[1].state.listings[1].id = LastOps[1].data.listingId
  /\ kv[1].state.listings[1].sold = 1

\* ------------------------------------------------------------------------
\* Workload 15: operations of every type marked silent, each set against the
\* same operation without the flag on the same snapshot
\* ------------------------------------------------------------------------
SilentOps ==
  LET alice == UserId(kv, "alice")
      bob   == UserId(kv, "bob")
  IN  {Quiet(op) : op \in
         MarketOps
         \cup {Transfer("op", alice, bob, a, now) : a \in {4000, 20000}}
         \cup {Roulette("op", bob, r, now) : r \in {50, 9800}}
         \cup {MorningClaim("op", alice, now), Register("op", "carol", now),
               Register("op", "alice", now),
               SendMessage("op", alice, bob, "hi", now)}}

PutSilent ==
  /\ sent < MaxDeals
  /\ \E op \in SilentOps : PutState([operations |-> Fresh(<<op>>, sent)])

InitSilent == InitMarket

NextSilent == PutSilent

SpecSilent == InitSilent /\ [][NextSilent]_vars

Loud(op) == [op EXCEPT !.meta = NoMeta]

\* the pass the last request would have been had its operations not been
\* marked silent
LoudPass ==
  mergeOperations(last.current, [i \in DOMAIN LastOps |-> Loud(LastOps[i])],
                  last.now, last.g).result

\* the same outcome and the same state but for txs, to which the silent pass
\* adds nothing and the other adds what it reports
SameButTxs(before, quiet, loud) ==
  /\ quiet.dispatched = loud.dispatched
  /\ quiet.newConflicts = loud.newConflicts
  /\ quiet.state = [loud.state EXCEPT !.txs = before.txs]
  /\ quiet.state.txs = before.txs
  /\ quiet.newTxs = <<>>
  /\ Len(loud.state.txs) = Len(before.txs) + Len(loud.newTxs)
  /\ quiet.newUsers = loud.newUsers
  /\ quiet.newRights = loud.newRights
  /\ quiet.updatedListings = loud.updatedListings
  /\ quiet.deletedListings = loud.deletedListings

\* C27: an operation marked silent ends as the same operation without the
\* flag does on the same state and makes the same changes to users, listings,
\* rights, notifications and vTick; it appends nothing to txs and reports no
\* created transaction.
C27_SilentOnlySparesTheLedger ==
  (MergedLast /\ Len(LastOps) = 1 /\ Silent(LastOps[1].meta)) =>
     SameButTxs(last.current.state, last.result, LoudPass)

\* bob bought alice's item silently: the balances moved and the right exists,
\* and the ledger is as it was
C27_Witness ==
  /\ LastWas("buy_listing")
  /\ Silent(LastOps[1].meta)
  /\ LastEnd = "ok"
  /\ Len(kv[1].state.rights) = Len(last.current.state.rights) + 1
  /\ BalanceIn(kv[1].state, LastOps[1].userId)
       = BalanceIn(last.current.state, LastOps[1].userId) - 1000
  /\ kv[1].state.txs = last.current.state.txs
  /\ kv[1].notify.newTxs = <<>>

\* C28: every operation the last pass dispatched, whether it succeeded,
\* conflicted or threw, has its record {id, timestamp, type, userId} in the
\* stored ProcessedOp log (unless it is older than the retention window), so
\* that the same id sent again would be filtered out.
C28_DispatchedAreLogged ==
  MergedLast =>
    \A i \in DOMAIN LastUnprocessed :
       LastUnprocessed[i].timestamp > last.now - RetentionMs =>
         /\ InSeq(ProcessedRecord(LastUnprocessed[i]), kv[1].processedOps)
         /\ IsProcessed(kv[1].processedOps, LastUnprocessed[i])

\* the ledger `after` is the ledger `before` with n transactions put ahead
KeptBehind(before, after) ==
  /\ Len(after) >= Len(before)
  /\ SubSeq(after, Len(after) - Len(before) + 1, Len(after)) = before

NewestFirst(txs) ==
  \A i, j \in DOMAIN txs : i < j => txs[i].ts >= txs[j].ts

\* C29: a merge pass keeps every transaction already in txs, unchanged and in
\* place, behind the ones it records; and the stored txs is ordered by
\* non-increasing timestamp.
C29_LedgerNewestFirst ==
  /\ MergedLast => KeptBehind(last.current.state.txs, last.result.state.txs)
  /\ kv # <<>> => NewestFirst(kv[1].state.txs)

RightsOn(state, listingId) ==
  Cardinality({i \in DOMAIN state.rights : state.rights[i].listingId = listingId})

\* C30: in every stored state each listing's sold count is the number of
\* rights that reference the listing, and every right references a listing
\* that is present.
C30_SoldCountsRights ==
  kv # <<>> =>
    /\ \A i \in DOMAIN kv[1].state.listings :
          kv[1].state.listings[i].sold
            = RightsOn(kv[1].state, kv[1].state.listings[i].id)
    /\ \A i \in DOMAIN kv[1].state.rights :
          ListingIdx(kv[1].state, kv[1].state.rights[i].listingId) # 0

\* alice refunded bob's one purchase and deleted the listing: no right is
\* left behind
C30_Witness ==
  /\ LastWas("delete_listing")
  /\ LastEnd = "ok"
  /\ last.current.state.listings # <<>>
  /\ last.current.state.listings[1].sold = 0
  /\ last.current.state.txs # <<>>
  /\ last.current.state.txs[1].type = "seller_refund"
  /\ kv[1].state.rights = <<>>
  /\ kv[1].state.listings = <<>>

\* C31: every listing id the last pass reports in deletedListings is absent
\* from the listings of the state it stored, and every listing the pass
\* removed is reported there.
C31_DeletedListingsAreGone ==
  MergedLast =>
    /\ \A i \in DOMAIN last.result.deletedListings :
          ListingIdx(last.result.state, last.result.deletedListings[i]) = 0
    /\ \A i \in DOMAIN last.current.state.listings :
          ListingIdx(last.result.state, last.current.state.listings[i].id) = 0
            => InSeq(last.current.state.listings[i].id, last.result.deletedListings)
    /\ kv[1].notify.deletedListings = last.result.deletedListings

\* ------------------------------------------------------------------------
\* Workload 16: a client polls while PUTs are between their store writes
\* ------------------------------------------------------------------------
\* usersStore.put throws: the error is logged and the request answered 200
PutRespondFailed(p) ==
  /\ req[p].pc = "written"
  /\ last' = req[p].out[1].last
  /\ req' = [req EXCEPT ![p].pc = "done", ![p].status = 200]
  /\ UNCHANGED <<kv, usersKv, now, g, sent, applied, doc, sreq, client>>

UsersPutFails == \E p \in Clients : PutRespondFailed(p)

InitGet == InitFrom({ThreeUsers})

NextGet == RacePut \/ UsersPutFails \/ Poll

SpecGet == InitGet /\ [][NextGet]_vars

\* C32: what a GET /state answered with 200 returns is the state of one merge
\* pass: its users are the users of the document whose listings, rights, txs
\* and vTick it returns, also while a PUT is between its two store writes or
\* after a users-store write failed.
C32_GetIsOneSnapshot ==
  client.status = 200 =>
    client.view[1].state = client.polled[1][1].state
====
